---------------------------- MODULE Spec2Model ----------------------------
(***************************************************************************)
(* Philips Air+ integration: the Auth Manager (auth.py), the Broker        *)
(* Session (mqtt_client.py) and the Device Coordinator (coordinator.py).   *)
(*                                                                         *)
(* Threads of the program:                                                 *)
(*   - the event loop, which runs the coroutines (setup, the poll routine, *)
(*     credential rotation, the delayed reconnect tasks, the handoffs of   *)
(*     the connection callback); coroutines interleave at awaits only;     *)
(*   - executor worker threads, each running one _blocking_connect;        *)
(*   - the network thread of the paho client, which runs _on_connect and   *)
(*     _on_disconnect.                                                     *)
(*                                                                         *)
(* Tokens and signatures are represented by their refresh generation:      *)
(* 0 is None, g >= 1 is the access token issued by the g-th token          *)
(* response (1 is the token of the config entry), and a signature has the  *)
(* generation of the access token it was fetched with.  Times are whole    *)
(* seconds; 0 stands for None / 0.0 as in the code.                        *)
(***************************************************************************)
EXTENDS Integers, Sequences, FiniteSets, TLC

-----------------------------------------------------------------------------
(* Program constants *)

TOKEN_REFRESH_BUFFER == 900
ReconnectBase == 1
ReconnectMaxBackoff == 300
Rc7Cooldown == 120
MaxReconnectAttempts == 32
ConnectTimeout == 15

\* asyncio.sleep(30) of _reconnect_later
ReconnectDelay == 30

(* Bounds of the model *)

\* token responses the identity provider serves in one behaviour
MaxRefresh == 1
\* poll cycles / direct ensure_access_token calls in one behaviour
MaxCalls == 1
\* refusals and connection drops the broker produces in one behaviour
MaxFaults == 1
\* executor threads running _blocking_connect at the same time
MaxWorkers == 2
\* seconds the environment lets pass in one behaviour (Tick)
MaxTicks == 3

\* commands and status requests the entities issue in one behaviour
MaxCommands == 2

\* flow ids of the configuration flows, authorization URLs generated,
\* async_request_token calls, and the length of an authorization code
MaxFlows == 2
MaxAuthorize == 2
MaxExchange == 2
MaxCodeLen == 2

\* status refreshes: coroutines in _request_initial_status at once, refreshes in
\* one behaviour, and the seconds they span
MaxStatusTasks == 2
MaxStatusRuns == 3
MaxStatusTime == 302

\* inbound payloads in one behaviour, and the length of their text
MaxMessages == 2
MaxPayloadLen == 3

\* the small hour counts a filter reports
MaxFilterHours == 4

\* the clock value of the initial state
T0 == 10000

-----------------------------------------------------------------------------
(* Strings as sequences of characters, for the substring tests of the code *)

Contains(s, sub) ==
    \E i \in 1..(Len(s) - Len(sub) + 1) : SubSeq(s, i, i + Len(sub) - 1) = sub

Digit(d) == <<"0", "1", "2", "3", "4", "5", "6", "7", "8", "9">>[d + 1]

\* str(status) of a three-digit HTTP status
StatusStr(status) ==
    <<Digit(status \div 100), Digit((status \div 10) % 10), Digit(status % 10)>>

S400 == <<"4", "0", "0">>
S401 == <<"4", "0", "1">>
SInvalidGrant == <<"i", "n", "v", "a", "l", "i", "d", "_", "g", "r", "a", "n", "t">>

\* "Refresh token request failed: "
RefreshFailedPrefix ==
    <<"R", "e", "f", "r", "e", "s", "h", " ", "t", "o", "k", "e", "n", " ",
      "r", "e", "q", "u", "e", "s", "t", " ", "f", "a", "i", "l", "e", "d",
      ":", " ">>

\* f"Refresh token request failed: {response.status} - {text}"
RefreshErrorMsg(status, text) ==
    RefreshFailedPrefix \o StatusStr(status) \o <<" ", "-", " ">> \o text

\* Response bodies of a failed token request
BodyEmpty == << >>
BodyInvalidGrant == <<"{", "e", "r", "r", "o", "r", ":">> \o SInvalidGrant \o <<"}">>
BodyServerError == <<"o", "o", "p", "s">>
\* an error page that quotes an upstream status, e.g. a gateway's "upstream 401"
BodyUpstream401 == <<"u", "p", "s", "t", "r", "e", "a", "m", " ">> \o S401
Bodies == {BodyEmpty, BodyInvalidGrant, BodyServerError, BodyUpstream401}

FailStatuses == {400, 401, 403, 500}


-----------------------------------------------------------------------------
VARIABLES
    now,                  \* time.time() / datetime.now(), in seconds
    \* PhilipsAirplusAuth
    auth_access_token,    \* self.access_token
    auth_refresh_token,   \* self.refresh_token
    auth_expires_at,      \* self.expires_at (0: None)
    auth_signature,       \* self.signature
    auth_pc,              \* where ensure_access_token / refresh_access_token is
    auth_ret,             \* what the last ensure_access_token call returned or raised
    auth_caller,          \* who awaits the call
    \* the identity provider and the observation of one call
    token_gen,            \* generations of access tokens issued so far
    calls,                \* ensure_access_token calls started so far
    posts,                \* refresh POSTs issued by the current call
    pre,                  \* credential set and clock when the current call started
    last_status,          \* HTTP status of the last token response (0: none, -1: no response)
    last_body,            \* body of the last failed token response
    cb_count,             \* invocations of the token callback by the call in progress
    cb_data,              \* the token_data the callback was last awaited with
    cb_raised,            \* that invocation raised
    sig_fetched,          \* the signature re-fetch of the call: "none", "ok", "failed"
    last_token_data,      \* the token response the call stored, and the clock then
    \* PhilipsAirplusMQTTClient
    mqtt_exists,          \* coordinator._mqtt_client is not None
    mqtt_access_token,    \* self.access_token
    mqtt_signature,       \* self.signature
    m_client,             \* self._client is not None
    m_connected,          \* self._connected
    m_connecting,         \* self._connecting
    m_refreshing,         \* self._refreshing_credentials
    m_attempts,           \* self._reconnect_attempts
    m_last_rc,            \* self._last_disconnect_rc
    m_last_time,          \* self._last_disconnect_time (0: 0.0)
    conn,                 \* the paho client's connection, as its network thread sees it
    \* executor threads running _blocking_connect
    w_pc,                 \* position of each thread
    w_owner,              \* the coroutine that awaits it
    w_sig,                \* the signature _build_headers has read
    w_start,              \* start_ts of the confirmation poll
    w_wait,               \* seconds slept before the handshake
    fut,                  \* results handed back to the awaiting coroutines
    \* PhilipsAirplusDataCoordinator and the event loop
    setup_pc,             \* _async_setup
    poll_pc,              \* _async_update_data
    poll_result,          \* how the last poll cycle ended
    upd_ret,              \* what the last async_update_credentials returned
    loop_queue,           \* call_soon_threadsafe handoffs of _on_mqtt_connection
    coord_connected,      \* coordinator._connected
    recon_sleeping,       \* _reconnect_later tasks in their sleep(30): the clock
                          \* reading at which each was created, oldest first
    \* the broker, and observations
    faults,               \* refusals and drops produced so far
    hs,                   \* generations of the token and the signature in the
                          \* headers of the last handshake
    cc,                   \* the last connect call made while a connect was in flight
    lost_while_refreshing, \* a connected=False callback ran with the refreshing flag set
    recon_last,           \* what the reconnect task that woke last did: "connect" or "skip"
    \* initialize() of the Auth Manager
    auth_user_id,         \* user_id: 0 is None
    init,                 \* the call: position, result, GET requests sent, and what the
                          \* user-id fetch and the signature fetch did
    \* OAuth Session: the PKCE exchange of the configuration flows
    flow_store,           \* hass.data["philips_airplus"]["flow_<id>"]: the code verifier
                          \* stored for each flow id, 0 when there is none
    verifier_gen,         \* code verifiers generated so far
    rt,                   \* the last async_request_token call: input, flow id, result,
                          \* the code and verifier it posted
    token_posts,          \* token POSTs sent with grant_type=authorization_code
    exchanged,            \* flow ids whose code has been exchanged since their URL was made
    \* status refreshes of the coordinator
    last_full_request,    \* coordinator._last_full_request (0: None)
    status_tasks,         \* _request_initial_status coroutines: position and run number
    status_log,           \* the refreshes that passed the connected test, in order of
                          \* start: clock reading, full or not, ports published
    \* inbound messages
    msg_count,            \* payloads the transport has handed to _on_message
    msg_last,             \* what the last of them parsed to, and how _on_message ended
    msg_queue,            \* call_soon_threadsafe handoffs of _on_mqtt_message
    device_state,         \* coordinator._device_state: the status updates merged into it
    last_update,          \* coordinator._last_update (0: None)
    \* filter information
    filter_data,          \* coordinator._filter_data: nominal and remaining hours of
                          \* each filter, <<n>> for n and << >> when the key is absent
    filter_info,          \* what the last _get_filter_info returned, and its fields
    \* re-authentication
    expired_raised,       \* a poll cycle has ended with AuthenticationExpired
    shut_down,            \* async_shutdown has run
    handoffs,             \* the callbacks call_soon_threadsafe has queued on the
                          \* event loop and the loop has not yet run, oldest first
    fan,                  \* the fan entity: the model's speed list, the speed the
                          \* device reports, the percentage read and the speed sent
    \* commands and status requests of the entities
    cmd,                  \* the call in progress: position, kind, number, result so far,
                          \* and the connected flag when it was issued
    issued,               \* calls issued so far
    outbox,               \* messages handed to the transport, in order
    cmd_log               \* calls that have returned: number, kind, flag at issue, result

authVars == <<auth_access_token, auth_refresh_token, auth_expires_at,
              auth_signature, auth_pc, auth_ret, auth_caller>>
cbVars == <<cb_count, cb_data, cb_raised, sig_fetched, last_token_data>>
obsVars == <<token_gen, calls, posts, pre, last_status, last_body, cbVars>>
credVars == <<mqtt_access_token, mqtt_signature>>
flagVars == <<m_client, m_connected, m_connecting, m_refreshing>>
backoffVars == <<m_attempts, m_last_rc, m_last_time>>
workerVars == <<w_pc, w_owner, w_sig, w_start, w_wait, fut>>
coordVars == <<setup_pc, poll_pc, poll_result, upd_ret, coord_connected, recon_sleeping>>
histVars == <<faults, hs, cc, lost_while_refreshing, recon_last>>
cmdVars == <<cmd, issued, outbox, cmd_log>>
initVars == <<auth_user_id, init>>
oauthVars == <<flow_store, verifier_gen, rt, token_posts, exchanged>>
statusVars == <<last_full_request, status_tasks, status_log>>
recvVars == <<msg_count, msg_last, msg_queue, device_state, last_update>>
filterVars == <<filter_data, filter_info>>
noteVars == <<expired_raised, shut_down, handoffs, fan>>
sideVars == <<oauthVars, statusVars, recvVars, filterVars, noteVars>>
\* the side parts apart from the flow store
flowFrame == <<statusVars, recvVars, filterVars, noteVars>>
\* the side parts apart from the status refreshes
statusFrame == <<oauthVars, recvVars, filterVars, noteVars>>
\* the side parts apart from the inbound messages
recvFrame == <<oauthVars, statusVars, filterVars, noteVars>>
\* the side parts apart from the filter information
filterFrame == <<oauthVars, statusVars, recvVars, noteVars>>
\* the side parts apart from the re-authentication signal
reauthFrame == <<oauthVars, statusVars, recvVars, filterVars, shut_down, handoffs, fan>>
\* the side parts apart from the shutdown
shutdownFrame == <<oauthVars, statusVars, recvVars, filterVars, expired_raised, handoffs, fan>>
\* the side parts apart from the callbacks queued on the event loop
connFrame == <<oauthVars, statusVars, recvVars, filterVars, expired_raised, shut_down, fan>>
\* and apart from the inbound messages as well
msgFrame == <<oauthVars, statusVars, filterVars, expired_raised, shut_down, fan>>
\* the side parts apart from the fan entity
fanFrame == <<oauthVars, statusVars, recvVars, filterVars, expired_raised, shut_down, handoffs>>
sessionVars == <<mqtt_exists, credVars, flagVars, backoffVars, conn, workerVars,
                 coordVars, loop_queue, histVars, cmdVars, initVars, sideVars>>

-----------------------------------------------------------------------------
(* Auth Manager: auth.py *)

\* coordinator.py builds the Auth Manager with entry.data.get(CONF_CLIENT_ID,
\* DEFAULT_CLIENT_ID), and the config flow always stores DEFAULT_CLIENT_ID
ClientIdConfigured == TRUE

\* the credential set, as the claims compare it before and after a call
CredentialSet ==
    [access_token |-> auth_access_token, refresh_token |-> auth_refresh_token,
     expires_at |-> auth_expires_at, signature |-> auth_signature, now |-> now]

\* no call is being observed
NoCall ==
    [access_token |-> 0, refresh_token |-> 0, expires_at |-> 0, signature |-> 0,
     now |-> 0]

\* the token callback has not been awaited
NoPayload == [access_token |-> 0, refresh_token |-> 0, expires_at |-> 0]

\* no token response has been stored
NoTokenData == [refresh_token |-> FALSE, exp |-> 0, expires_in |-> 0, at |-> 0]

\* no token response, no token callback and no signature re-fetch observed
CallbackUnobserved ==
    /\ cb_count' = 0
    /\ cb_data' = NoPayload
    /\ cb_raised' = FALSE
    /\ sig_fetched' = "none"
    /\ last_token_data' = NoTokenData

\* the caller has taken the result: the observation of the call ends
CallObserved ==
    /\ pre' = NoCall
    /\ last_status' = 0
    /\ last_body' = BodyEmpty
    /\ CallbackUnobserved
    /\ UNCHANGED <<token_gen, calls, posts>>

\* a revocation test that has lost its 401 case (sensitivity of C4)
IsRevokedWithout401(error_msg) ==
    Contains(error_msg, S400) /\ Contains(error_msg, SInvalidGrant)

\* refresh_access_token, the test of the except RuntimeError branch
IsRevoked(error_msg) ==
    \/ Contains(error_msg, S400) /\ Contains(error_msg, SInvalidGrant)
    \/ Contains(error_msg, S401)

\* an expiry test that also fires at the very end of the buffer (sensitivity
\* of C6)
ExpiryImminentInclusive == now + TOKEN_REFRESH_BUFFER >= auth_expires_at

\* ensure_access_token: does the known expiry force a refresh
ExpiryImminent == now + TOKEN_REFRESH_BUFFER > auth_expires_at

\* refresh_access_token up to its await of the token POST
RefreshAccessTokenCall ==
    IF auth_refresh_token = 0 \/ ~ClientIdConfigured
    THEN /\ auth_pc' = "done"
         /\ auth_ret' = "False"
         /\ posts' = 0
    ELSE /\ auth_pc' = "post"
         /\ auth_ret' = "none"
         /\ posts' = 1

\* a result that does not look at the access token
EnsureWithoutRefreshTokenTrue == "True"

\* ensure_access_token with no refresh token: return bool(self.access_token)
EnsureWithoutRefreshToken == IF auth_access_token # 0 THEN "True" ELSE "False"

\* ensure_access_token, called by caller c, up to its first await
EnsureAccessToken(c) ==
    /\ auth_pc = "idle"
    /\ calls < MaxCalls
    /\ calls' = calls + 1
    /\ auth_caller' = c
    /\ pre' = CredentialSet
    /\ last_status' = 0
    /\ last_body' = BodyEmpty
    /\ CallbackUnobserved
    /\ IF auth_refresh_token = 0
       THEN /\ auth_pc' = "done"
            /\ auth_ret' = EnsureWithoutRefreshToken
            /\ posts' = 0
       ELSE IF auth_expires_at = 0 \/ ExpiryImminent
       THEN RefreshAccessTokenCall
       ELSE /\ auth_pc' = "done"
            /\ auth_ret' = "True"
            /\ posts' = 0
    /\ UNCHANGED <<now, auth_access_token, auth_refresh_token, auth_expires_at,
                   auth_signature, token_gen>>

\* Token responses (HTTP 200) of the identity provider: a new access token, with
\* or without a new refresh token, with exp (absolute), expires_in (duration),
\* both or neither
Lifetimes == {600, 3600}
TokenResponses ==
    [refresh_token : BOOLEAN,
     exp : {0} \cup {now + l : l \in Lifetimes},
     expires_in : {0, 3600}]

\* an expiry that takes the duration first
NewExpiryDurationFirst(token_data) ==
    IF token_data.expires_in # 0 THEN now + token_data.expires_in
    ELSE IF token_data.exp # 0 THEN token_data.exp
    ELSE auth_expires_at

\* a refresh token taken from the response alone
NewRefreshTokenFromResponse(token_data) ==
    IF token_data.refresh_token THEN token_gen + 1 ELSE 0

\* refresh_access_token: the refresh token after a token response, the
\* response's when it carries one
NewRefreshToken(token_data) ==
    IF token_data.refresh_token THEN token_gen + 1 ELSE auth_refresh_token

\* refresh_access_token: the expiry after a token response
NewExpiry(token_data) ==
    IF token_data.exp # 0 THEN token_data.exp
    ELSE IF token_data.expires_in # 0 THEN now + token_data.expires_in
    ELSE auth_expires_at

\* refresh_access_token: the token POST answered 200
TokenResponseOk(token_data) ==
    /\ auth_pc = "post"
    /\ token_gen <= MaxRefresh
    /\ token_gen' = token_gen + 1
    /\ auth_access_token' = token_gen + 1
    /\ auth_refresh_token' = NewRefreshToken(token_data)
    /\ auth_expires_at' = NewExpiry(token_data)
    /\ auth_pc' = "sig"
    /\ last_status' = 200
    /\ last_token_data' = [refresh_token |-> token_data.refresh_token,
                           exp |-> token_data.exp,
                           expires_in |-> token_data.expires_in, at |-> now]
    /\ UNCHANGED <<now, auth_signature, auth_ret, auth_caller, calls, posts, pre,
                   last_body, cb_count, cb_data, cb_raised, sig_fetched, sessionVars>>

\* refresh_access_token: the token POST answered 200 with a body that carries
\* no access token under either name: token_data.get("access_token") or
\* token_data.get("accessToken") is None, and None is stored
TokenResponseWithoutAccessToken(token_data) ==
    /\ auth_pc = "post"
    /\ token_gen <= MaxRefresh
    /\ token_gen' = token_gen + 1
    /\ auth_access_token' = 0
    /\ auth_refresh_token' = NewRefreshToken(token_data)
    /\ auth_expires_at' = NewExpiry(token_data)
    /\ auth_pc' = "sig"
    /\ last_status' = 200
    /\ last_token_data' = [refresh_token |-> token_data.refresh_token,
                           exp |-> token_data.exp,
                           expires_in |-> token_data.expires_in, at |-> now]
    /\ UNCHANGED <<now, auth_signature, auth_ret, auth_caller, calls, posts, pre,
                   last_body, cb_count, cb_data, cb_raised, sig_fetched, sessionVars>>

\* refresh_access_token: async_refresh_token raised RuntimeError (status # 200)
TokenResponseFail(status, text) ==
    /\ auth_pc = "post"
    /\ last_status' = status
    /\ last_body' = text
    /\ auth_pc' = "done"
    /\ IF IsRevoked(RefreshErrorMsg(status, text))
       THEN /\ auth_refresh_token' = 0
            /\ auth_ret' = "AuthenticationExpired"
       ELSE /\ auth_ret' = "False"
            /\ UNCHANGED auth_refresh_token
    /\ UNCHANGED <<now, auth_access_token, auth_expires_at, auth_signature,
                   auth_caller, token_gen, calls, posts, pre, cbVars, sessionVars>>

\* refresh_access_token: the POST raised something else (no response at all)
TokenRequestError ==
    /\ auth_pc = "post"
    /\ last_status' = -1
    /\ auth_pc' = "done"
    /\ auth_ret' = "False"
    /\ UNCHANGED <<now, auth_access_token, auth_refresh_token, auth_expires_at,
                   auth_signature, auth_caller, token_gen, calls, posts, pre,
                   last_body, cbVars, sessionVars>>

\* the coordinator builds the Auth Manager with token_callback=_on_token_refresh
TokenCallbackRegistered == TRUE

\* the token_data handed to the token callback
CallbackPayload ==
    [access_token |-> auth_access_token, refresh_token |-> auth_refresh_token,
     expires_at |-> auth_expires_at]

\* a refresh whose callback exception reaches the caller
RefreshResultCallbackPropagates(sig_ok, cb_raises) ==
    IF cb_raises THEN "Exception" ELSE "True"

\* a refresh that fails with its signature re-fetch
RefreshResultSignatureFatal(sig_ok, cb_raises) ==
    IF sig_ok THEN "True" ELSE "False"

\* refresh_access_token: the result once the token response has been stored,
\* whatever the signature re-fetch and the token callback did
RefreshResult(sig_ok, cb_raises) == "True"

\* refresh_access_token from the signature re-fetch to its return: the re-fetch
\* answers (ok) or fails, the token callback is awaited with the stored values
\* and returns or raises, and the call returns
RefreshFinish(ok, cb_raises) ==
    /\ auth_pc = "sig"
    /\ auth_signature' = IF ok THEN auth_access_token ELSE auth_signature
    /\ sig_fetched' = IF ok THEN "ok" ELSE "failed"
    /\ IF TokenCallbackRegistered
       THEN /\ cb_count' = cb_count + 1
            /\ cb_data' = CallbackPayload
            /\ cb_raised' = cb_raises
       ELSE UNCHANGED <<cb_count, cb_data, cb_raised>>
    /\ auth_pc' = "done"
    /\ auth_ret' = RefreshResult(ok, cb_raises)
    /\ UNCHANGED <<now, auth_access_token, auth_refresh_token, auth_expires_at,
                   auth_caller, token_gen, calls, posts, pre, last_status, last_body,
                   last_token_data, sessionVars>>

\* the signature re-fetch answered (ok) or failed, and the token callback
\* returned
SignatureResponse(ok) == RefreshFinish(ok, FALSE)

\* the same with a token callback that raises
CallbackRaises(ok) == RefreshFinish(ok, TRUE)

\* initialize() has not been called
NotInitialized == [pc |-> "idle", ret |-> "none", gets |-> 0, user |-> "none", sig |-> "none"]

\* what a GET of _fetch_user_id or _fetch_signature can do: answer 200 with the
\* field, answer 200 without it, or fail (another status, no answer, no JSON)
FetchOutcomes == {"value", "missing", "failed"}

\* data.get("id"), data.get("signature"): the field, or None
Fetched(outcome, value) == IF outcome = "value" THEN value ELSE 0

\* initialize: True when neither fetch raised
InitializeResult(user, sig) ==
    IF user # "failed" /\ sig # "failed" THEN "True" ELSE "False"

\* initialize() up to its first await
Initialize ==
    /\ init.pc = "idle"
    /\ init' = IF auth_access_token = 0
               THEN [init EXCEPT !.pc = "done", !.ret = "False"]
               ELSE [init EXCEPT !.pc = "user", !.gets = 1]
    /\ UNCHANGED <<now, authVars, obsVars, mqtt_exists, credVars, flagVars,
                   backoffVars, conn, workerVars, coordVars, loop_queue, histVars,
                   cmdVars, sideVars, auth_user_id>>

\* initialize: _fetch_user_id answers or raises
FetchUserId(outcome) ==
    /\ init.pc = "user"
    /\ IF outcome = "failed"
       THEN /\ init' = [init EXCEPT !.pc = "done", !.user = outcome,
                                    !.ret = InitializeResult(outcome, "none")]
            /\ UNCHANGED auth_user_id
       ELSE /\ init' = [init EXCEPT !.pc = "sig", !.user = outcome, !.gets = 2]
            /\ auth_user_id' = Fetched(outcome, 1)
    /\ UNCHANGED <<now, authVars, obsVars, mqtt_exists, credVars, flagVars,
                   backoffVars, conn, workerVars, coordVars, loop_queue, histVars,
                   cmdVars, sideVars>>

\* initialize: _fetch_signature answers or raises, and initialize returns
FetchSignature(outcome) ==
    /\ init.pc = "sig"
    /\ init' = [init EXCEPT !.pc = "done", !.sig = outcome,
                            !.ret = InitializeResult(init.user, outcome)]
    /\ auth_signature' = IF outcome = "failed"
                         THEN auth_signature
                         ELSE Fetched(outcome, auth_access_token)
    /\ UNCHANGED <<now, auth_access_token, auth_refresh_token, auth_expires_at,
                   auth_pc, auth_ret, auth_caller, obsVars, mqtt_exists, credVars,
                   flagVars, backoffVars, conn, workerVars, coordVars, loop_queue,
                   histVars, cmdVars, sideVars, auth_user_id>>

\* a caller other than the poll routine calls ensure_access_token
EnsureDirect ==
    /\ EnsureAccessToken("direct")
    /\ UNCHANGED sessionVars

\* and takes the result of its call
DirectReturn ==
    /\ auth_pc = "done"
    /\ auth_caller = "direct"
    /\ auth_pc' = "idle"
    /\ CallObserved
    /\ UNCHANGED <<now, auth_access_token, auth_refresh_token, auth_expires_at,
                   auth_signature, auth_ret, auth_caller, sessionVars>>

\* time passes
Tick(d) ==
    /\ now + d <= T0 + MaxTicks
    /\ now' = now + d
    /\ UNCHANGED <<authVars, obsVars, sessionVars>>

vars == <<now, authVars, obsVars, sessionVars>>

-----------------------------------------------------------------------------
(* Broker Session: mqtt_client.py *)

Workers == 1..MaxWorkers
Awaiters == {"setup", "upd"}
\* cause codes of an abnormal disconnect: 7 is the one the code singles out
AbnormalRcs == {1, 7}

Min(a, b) == IF a < b THEN a ELSE b
Max(a, b) == IF a > b THEN a ELSE b

\* 2 ** k, kept from growing once it is beyond the cap it is compared with
\* (Python computes it exactly; min(.., 300) is the same)
RECURSIVE Pow2(_)
Pow2(k) ==
    IF k = 0 THEN 1
    ELSE LET p == Pow2(k - 1)
         IN IF p > ReconnectMaxBackoff THEN p ELSE 2 * p

\* a backoff that grows linearly instead of doubling (sensitivity of C10)
BackoffLinear(attempts) ==
    Min(ReconnectBase * Max(0, attempts), ReconnectMaxBackoff)

\* _blocking_connect: min(base * (2 ** max(0, attempts - 1)), max_backoff)
Backoff(attempts) ==
    Min(ReconnectBase * Pow2(Max(0, attempts - 1)), ReconnectMaxBackoff)

\* _blocking_connect: the sleep of "Apply backoff if recent disconnect"
BackoffWait ==
    IF m_last_time # 0 /\ m_last_rc # 0 /\ now - m_last_time < Backoff(m_attempts)
    THEN Backoff(m_attempts) - (now - m_last_time)
    ELSE 0

\* a cooldown that sleeps its full length whatever has elapsed (sensitivity
\* of C9)
Rc7WaitFull ==
    IF m_last_rc = 7 /\ m_last_time # 0 /\ now - m_last_time < Rc7Cooldown
    THEN Rc7Cooldown
    ELSE 0

\* _blocking_connect: the sleep of "Special cooldown for rc=7"
Rc7Wait ==
    IF m_last_rc = 7 /\ m_last_time # 0 /\ now - m_last_time < Rc7Cooldown
    THEN Rc7Cooldown - (now - m_last_time)
    ELSE 0

\* A blocking wait of d seconds (time.sleep, the confirmation poll).  The timed
\* specifications let the clock run through it; Spec explores the interleavings
\* of the threads with the clock held still, every wait being a suspension of
\* unspecified length.
Elapse(d, timed) == now' = IF timed THEN now + d ELSE now

\* is_connected()
IsConnected == m_connected \/ m_refreshing

\* the result goes back to the coroutine that awaits the executor job
Deliver(owner, r) ==
    fut' = IF owner \in Awaiters THEN [fut EXCEPT ![owner] = r] ELSE fut

\* an async_connect that does not look at the connecting flag (sensitivity
\* of C3)
ConnectImmediateNoBusyCheck == IF m_connected THEN "True" ELSE "started"

\* async_connect: what the checks before run_in_executor answer
ConnectImmediate ==
    IF m_connected THEN "True" ELSE IF m_connecting THEN "False" ELSE "started"

FreeWorker == CHOOSE w \in Workers : w_pc[w] = "idle" /\ \A v \in Workers : v < w => w_pc[v] # "idle"

\* async_connect called by the coroutine owner: returns at once or hands
\* _blocking_connect to an executor thread
AsyncConnect(owner) ==
    /\ cc' = IF m_connecting
             THEN [ret |-> ConnectImmediate, connected |-> m_connected, by |-> "async_connect"]
             ELSE cc
    /\ IF ConnectImmediate = "started"
       THEN /\ \E w \in Workers : w_pc[w] = "idle"
            /\ w_pc' = [w_pc EXCEPT ![FreeWorker] = "start"]
            /\ w_owner' = [w_owner EXCEPT ![FreeWorker] = owner]
       ELSE UNCHANGED <<w_pc, w_owner>>

\* _blocking_connect: the checks under the lock
BlockingConnectStart(w) ==
    /\ w_pc[w] = "start"
    /\ IF m_connecting
       THEN /\ w_pc' = [w_pc EXCEPT ![w] = "idle"]
            /\ Deliver(w_owner[w], "False")
            /\ cc' = [ret |-> "False", connected |-> m_connected, by |-> "_blocking_connect"]
            /\ UNCHANGED <<m_connecting, w_wait>>
       ELSE IF m_connected
       THEN /\ w_pc' = [w_pc EXCEPT ![w] = "idle"]
            /\ Deliver(w_owner[w], "True")
            /\ UNCHANGED <<m_connecting, w_wait, cc>>
       ELSE /\ m_connecting' = TRUE
            /\ w_pc' = [w_pc EXCEPT ![w] = "backoff"]
            /\ w_wait' = 0
            /\ UNCHANGED <<fut, cc>>
    /\ UNCHANGED <<cmdVars, initVars, sideVars>>
    /\ UNCHANGED <<now, authVars, obsVars, mqtt_exists, credVars, m_client,
                   m_connected, m_refreshing, backoffVars, conn, w_owner, w_sig,
                   w_start, coordVars, loop_queue, faults, hs, lost_while_refreshing, recon_last>>

\* _blocking_connect: the exponential backoff sleep
BackoffSleep(w, timed) ==
    /\ w_pc[w] = "backoff"
    /\ Elapse(BackoffWait, timed)
    /\ w_wait' = w_wait + BackoffWait
    /\ w_pc' = [w_pc EXCEPT ![w] = "rc7"]
    /\ UNCHANGED <<cmdVars, initVars, sideVars>>
    /\ UNCHANGED <<authVars, obsVars, mqtt_exists, credVars, flagVars, backoffVars,
                   conn, w_owner, w_sig, w_start, fut, coordVars, loop_queue, histVars>>

\* _blocking_connect: the rc=7 cooldown sleep
Rc7Sleep(w, timed) ==
    /\ w_pc[w] = "rc7"
    /\ Elapse(Rc7Wait, timed)
    /\ w_wait' = w_wait + Rc7Wait
    /\ w_pc' = [w_pc EXCEPT ![w] = "headers"]
    /\ UNCHANGED <<cmdVars, initVars, sideVars>>
    /\ UNCHANGED <<authVars, obsVars, mqtt_exists, credVars, flagVars, backoffVars,
                   conn, w_owner, w_sig, w_start, fut, coordVars, loop_queue, histVars>>

\* _build_headers: the signature header is read first
BuildHeadersSignature(w) ==
    /\ w_pc[w] = "headers"
    /\ w_sig' = mqtt_signature
    /\ w_pc' = [w_pc EXCEPT ![w] = "handshake"]
    /\ UNCHANGED <<cmdVars, initVars, sideVars>>
    /\ UNCHANGED <<now, authVars, obsVars, mqtt_exists, credVars, flagVars,
                   backoffVars, conn, w_owner, w_start, w_wait, fut, coordVars,
                   loop_queue, histVars>>

\* _build_headers reads the token header; the paho client is created and
\* connect() makes the handshake: it returns (raised = FALSE) and loop_start()
\* starts the network thread, or it raises
Handshake(w, raised) ==
    /\ w_pc[w] = "handshake"
    /\ hs' = [token |-> mqtt_access_token, sig |-> w_sig]
    /\ m_client' = TRUE
    /\ w_start' = now
    /\ w_sig' = 0
    /\ w_wait' = 0
    /\ IF raised
       THEN /\ w_pc' = [w_pc EXCEPT ![w] = "teardown"]
            /\ UNCHANGED conn
       ELSE /\ w_pc' = [w_pc EXCEPT ![w] = "wait"]
            /\ conn' = "pending"
    /\ UNCHANGED <<cmdVars, initVars, sideVars>>
    /\ UNCHANGED <<now, authVars, obsVars, mqtt_exists, credVars, m_connected,
                   m_connecting, m_refreshing, backoffVars, w_owner,
                   fut, coordVars, loop_queue, faults, cc, lost_while_refreshing, recon_last>>

\* _blocking_connect: the confirmation poll sees the connected flag
WaitObserve(w) ==
    /\ w_pc[w] = "wait"
    /\ m_connected
    /\ w_pc' = [w_pc EXCEPT ![w] = "check"]
    /\ UNCHANGED <<cmdVars, initVars, sideVars>>
    /\ UNCHANGED <<now, authVars, obsVars, mqtt_exists, credVars, flagVars,
                   backoffVars, conn, w_owner, w_sig, w_start, w_wait, fut,
                   coordVars, loop_queue, histVars>>

\* _blocking_connect: the confirmation poll runs out of its timeout
WaitTimeout(w, timed) ==
    /\ w_pc[w] = "wait"
    /\ ~m_connected
    /\ Elapse(Max(0, w_start + ConnectTimeout - now), timed)
    /\ w_pc' = [w_pc EXCEPT ![w] = "check"]
    /\ UNCHANGED <<cmdVars, initVars, sideVars>>
    /\ UNCHANGED <<authVars, obsVars, mqtt_exists, credVars, flagVars, backoffVars,
                   conn, w_owner, w_sig, w_start, w_wait, fut, coordVars, loop_queue,
                   histVars>>

\* _blocking_connect: "if not self._connected" after the poll
CheckConnected(w) ==
    /\ w_pc[w] = "check"
    /\ w_pc' = [w_pc EXCEPT ![w] = IF m_connected THEN "fin_true" ELSE "teardown"]
    /\ w_start' = 0
    /\ UNCHANGED <<cmdVars, initVars, sideVars>>
    /\ UNCHANGED <<now, authVars, obsVars, mqtt_exists, credVars, flagVars,
                   backoffVars, conn, w_owner, w_sig, w_wait, fut,
                   coordVars, loop_queue, histVars>>

\* _blocking_connect: loop_stop(), disconnect() and self._client = None, on the
\* timeout path and on the exception path
Teardown(w) ==
    /\ w_pc[w] = "teardown"
    /\ conn' = IF m_client THEN "none" ELSE conn
    /\ m_client' = FALSE
    /\ w_pc' = [w_pc EXCEPT ![w] = "fin_false"]
    /\ UNCHANGED <<cmdVars, initVars, sideVars>>
    /\ UNCHANGED <<now, authVars, obsVars, mqtt_exists, credVars, m_connected,
                   m_connecting, m_refreshing, backoffVars, w_owner, w_sig, w_start,
                   w_wait, fut, coordVars, loop_queue, histVars>>

\* a _blocking_connect that returns without its finally clause (sensitivity
\* of C38)
FinallyKeepsFlag(w) ==
    /\ w_pc[w] \in {"fin_true", "fin_false"}
    /\ UNCHANGED m_connecting
    /\ Deliver(w_owner[w], IF w_pc[w] = "fin_true" THEN "True" ELSE "False")
    /\ w_pc' = [w_pc EXCEPT ![w] = "idle"]
    /\ UNCHANGED <<cmdVars, initVars, sideVars>>
    /\ UNCHANGED <<now, authVars, obsVars, mqtt_exists, credVars, m_client,
                   m_connected, m_refreshing, backoffVars, conn, w_owner, w_sig,
                   w_start, w_wait, coordVars, loop_queue, histVars>>

\* _blocking_connect: the finally clause, and the return
Finally(w) ==
    /\ w_pc[w] \in {"fin_true", "fin_false"}
    /\ m_connecting' = FALSE
    /\ Deliver(w_owner[w], IF w_pc[w] = "fin_true" THEN "True" ELSE "False")
    /\ w_pc' = [w_pc EXCEPT ![w] = "idle"]
    /\ UNCHANGED <<cmdVars, initVars, sideVars>>
    /\ UNCHANGED <<now, authVars, obsVars, mqtt_exists, credVars, m_client,
                   m_connected, m_refreshing, backoffVars, conn, w_owner, w_sig,
                   w_start, w_wait, coordVars, loop_queue, histVars>>

\* disconnect()
Disconnect ==
    /\ conn' = IF m_client THEN "none" ELSE conn
    /\ m_client' = FALSE
    /\ m_connected' = FALSE

\* _on_connect with rc = 0, on the network thread
OnConnectAccepted ==
    /\ conn = "pending"
    /\ conn' = "up"
    /\ m_connected' = TRUE
    /\ m_attempts' = 0
    /\ m_last_rc' = 0
    /\ m_last_time' = 0
    /\ loop_queue' = Append(loop_queue, TRUE)
    /\ handoffs' = Append(handoffs, "connection")
    /\ UNCHANGED <<cmdVars, initVars, connFrame>>
    /\ UNCHANGED <<now, authVars, obsVars, mqtt_exists, credVars, m_client,
                   m_connecting, m_refreshing, workerVars, coordVars, histVars>>

\* _on_connect with rc # 0: the broker refuses the connection
OnConnectRefused ==
    /\ conn = "pending"
    /\ faults < MaxFaults
    /\ faults' = faults + 1
    /\ conn' = "refused"
    /\ m_connected' = FALSE
    /\ loop_queue' = Append(loop_queue, FALSE)
    /\ handoffs' = Append(handoffs, "connection")
    /\ lost_while_refreshing' = (lost_while_refreshing \/ m_refreshing)
    /\ UNCHANGED <<cmdVars, initVars, connFrame>>
    /\ UNCHANGED <<now, authVars, obsVars, mqtt_exists, credVars, m_client,
                   m_connecting, m_refreshing, backoffVars, workerVars, coordVars,
                   hs, cc, recon_last>>

\* a consecutive-disconnect count without its cap (sensitivity of C37)
AttemptsAfterDisconnectUncapped == m_attempts + 1

\* _on_disconnect: self._reconnect_attempts = min(self._reconnect_attempts + 1, 32)
AttemptsAfterDisconnect == Min(m_attempts + 1, MaxReconnectAttempts)

\* _on_disconnect(rc), on the network thread: after a refusal, when the
\* connection is lost (rc # 0), or when an established session is closed
\* cleanly (rc = 0)
OnDisconnect(rc) ==
    /\ \/ conn = "refused" /\ rc # 0
       \/ conn \in {"pending", "up"} /\ rc # 0 /\ faults < MaxFaults
       \/ conn = "up" /\ rc = 0 /\ faults < MaxFaults
    /\ faults' = IF conn = "refused" THEN faults ELSE faults + 1
    /\ conn' = "none"
    /\ IF rc # 0
       THEN /\ m_attempts' = AttemptsAfterDisconnect
            /\ m_last_time' = now
            /\ m_last_rc' = rc
            /\ m_client' = FALSE
       ELSE UNCHANGED <<m_attempts, m_last_time, m_last_rc, m_client>>
    /\ m_connected' = FALSE
    /\ IF ~m_refreshing
       THEN /\ loop_queue' = Append(loop_queue, FALSE)
            /\ handoffs' = Append(handoffs, "connection")
       ELSE UNCHANGED <<loop_queue, handoffs>>
    /\ UNCHANGED <<cmdVars, initVars, connFrame>>
    /\ UNCHANGED <<now, authVars, obsVars, mqtt_exists, credVars, m_connecting,
                   m_refreshing, workerVars, coordVars, hs, cc, lost_while_refreshing, recon_last>>

-----------------------------------------------------------------------------
(* Device Coordinator: coordinator.py *)

\* _on_mqtt_connection_in_loop: the event loop runs the oldest handoff
OnMqttConnectionInLoop ==
    /\ loop_queue # << >>
    /\ Head(handoffs) = "connection"
    /\ handoffs' = Tail(handoffs)
    /\ coord_connected' = Head(loop_queue)
    /\ loop_queue' = Tail(loop_queue)
    /\ recon_sleeping' = IF Head(loop_queue)
                         THEN recon_sleeping
                         ELSE Append(recon_sleeping, now)
    /\ UNCHANGED <<cmdVars, initVars, connFrame>>
    /\ UNCHANGED <<now, authVars, obsVars, mqtt_exists, credVars, flagVars,
                   backoffVars, conn, workerVars, setup_pc, poll_pc, poll_result,
                   upd_ret, histVars>>

\* a test that starts a reconnect whatever the coordinator has been told
ReconnectWantedAlways == mqtt_exists

\* _reconnect_later: if not self._connected and self._mqtt_client
ReconnectWanted == ~coord_connected /\ mqtt_exists

\* _reconnect_later, after its sleep(30): the oldest task wakes, the clock then
\* reads at least ReconnectDelay more than at its creation
ReconnectLater(timed) ==
    /\ recon_sleeping # << >>
    /\ recon_sleeping' = Tail(recon_sleeping)
    /\ Elapse(Max(0, Head(recon_sleeping) + ReconnectDelay - now), timed)
    /\ IF ReconnectWanted
       THEN AsyncConnect("recon") /\ recon_last' = "connect"
       ELSE UNCHANGED <<w_pc, w_owner, cc>> /\ recon_last' = "skip"
    /\ UNCHANGED <<cmdVars, initVars, sideVars>>
    /\ UNCHANGED <<authVars, obsVars, mqtt_exists, credVars, flagVars,
                   backoffVars, conn, w_sig, w_start, w_wait, fut, setup_pc, poll_pc,
                   poll_result, upd_ret, coord_connected, loop_queue, faults, hs,
                   lost_while_refreshing>>

\* _async_setup: auth.initialize() (its two GETs succeed or one fails), the
\* Broker Session is built from the Auth Manager's credentials, its callbacks
\* are registered and async_connect is awaited
AsyncSetup(initialized) ==
    /\ setup_pc = "init"
    /\ IF auth_access_token = 0 \/ ~initialized
       THEN /\ setup_pc' = "failed"
            /\ UNCHANGED <<auth_signature, mqtt_exists, credVars, w_pc, w_owner,
                           fut, cc>>
       ELSE /\ auth_signature' = auth_access_token
            /\ mqtt_exists' = TRUE
            /\ mqtt_access_token' = auth_access_token
            /\ mqtt_signature' = auth_access_token
            /\ AsyncConnect("setup")
            /\ fut' = [fut EXCEPT !["setup"] = "pending"]
            /\ setup_pc' = "connect"
    /\ UNCHANGED <<cmdVars, initVars, sideVars>>
    /\ UNCHANGED <<now, auth_access_token, auth_refresh_token, auth_expires_at,
                   auth_pc, auth_ret, auth_caller, obsVars, flagVars, backoffVars,
                   conn, w_sig, w_start, w_wait, poll_pc, poll_result, upd_ret,
                   coord_connected, recon_sleeping, loop_queue, faults, hs,
                   lost_while_refreshing, recon_last>>

\* _async_setup: the connect returned; UpdateFailed unless it was True
AsyncSetupConnected ==
    /\ setup_pc = "connect"
    /\ fut["setup"] \in {"True", "False"}
    /\ setup_pc' = IF fut["setup"] = "True" THEN "ready" ELSE "failed"
    /\ fut' = [fut EXCEPT !["setup"] = "none"]
    /\ UNCHANGED <<cmdVars, initVars, sideVars>>
    /\ UNCHANGED <<now, authVars, obsVars, mqtt_exists, credVars, flagVars,
                   backoffVars, conn, w_pc, w_owner, w_sig, w_start, w_wait, poll_pc,
                   poll_result, upd_ret, coord_connected, recon_sleeping, loop_queue,
                   histVars>>

\* _async_update_data: UpdateFailed unless is_connected(), else
\* ensure_access_token is awaited
AsyncUpdateData ==
    /\ setup_pc = "ready"
    /\ poll_pc = "idle"
    /\ IF ~mqtt_exists \/ ~IsConnected
       THEN /\ poll_result' = "UpdateFailed"
            /\ UNCHANGED <<now, authVars, obsVars, poll_pc>>
       ELSE /\ EnsureAccessToken("poll")
            /\ poll_pc' = "ensure"
            /\ poll_result' = "none"
    /\ UNCHANGED <<cmdVars, initVars, sideVars>>
    /\ UNCHANGED <<mqtt_exists, credVars, flagVars, backoffVars, conn, workerVars,
                   setup_pc, upd_ret, coord_connected, recon_sleeping, loop_queue,
                   histVars>>

\* an async_update_credentials that reconnects without dropping the connection
\* it has (sensitivity of C34)
AsyncUpdateCredentialsKeepsConnection(access_token, signature) ==
    /\ mqtt_access_token' = access_token
    /\ mqtt_signature' = signature
    /\ IF m_connecting
       THEN /\ upd_ret' = "False"
            /\ poll_pc' = "idle"
            /\ poll_result' = "ok"
            /\ UNCHANGED <<flagVars, conn>>
       ELSE /\ m_refreshing' = TRUE
            /\ upd_ret' = "none"
            /\ poll_pc' = "upd_sleep"
            /\ UNCHANGED <<poll_result, m_connecting, m_client, m_connected, conn>>

\* async_update_credentials(access_token, signature), up to its sleep(1); it
\* returns at once when a connect is in flight
AsyncUpdateCredentials(access_token, signature) ==
    /\ mqtt_access_token' = access_token
    /\ mqtt_signature' = signature
    /\ IF m_connecting
       THEN /\ upd_ret' = "False"
            /\ poll_pc' = "idle"
            /\ poll_result' = "ok"
            /\ UNCHANGED <<flagVars, conn>>
       ELSE /\ m_refreshing' = TRUE
            /\ Disconnect
            /\ upd_ret' = "none"
            /\ poll_pc' = "upd_sleep"
            /\ UNCHANGED <<poll_result, m_connecting>>

\* a poll routine that swallows what ensure_access_token raises (sensitivity
\* of C7)
PollOutcomeSwallowed(ret) == "ok"

\* _async_update_data awaits ensure_access_token outside any try: what it
\* raises ends the poll routine, what it returns lets it go on
PollOutcome(ret) ==
    IF ret = "AuthenticationExpired" THEN "AuthenticationExpired" ELSE "ok"

\* _async_update_data: ensure_access_token returned or raised; a True result
\* with a changed access token rotates the Broker Session's credentials; then
\* the Status port is requested and the data returned
AsyncUpdateDataEnsured ==
    /\ poll_pc = "ensure"
    /\ auth_pc = "done"
    /\ auth_caller = "poll"
    /\ auth_pc' = "idle"
    /\ CallObserved
    /\ IF PollOutcome(auth_ret) # "ok"
       THEN /\ poll_result' = PollOutcome(auth_ret)
            /\ poll_pc' = "idle"
            /\ UNCHANGED <<credVars, flagVars, conn, upd_ret>>
       ELSE IF auth_ret = "True" /\ mqtt_exists /\ mqtt_access_token # auth_access_token
       THEN AsyncUpdateCredentials(auth_access_token, auth_signature)
       ELSE /\ poll_result' = "ok"
            /\ poll_pc' = "idle"
            /\ UNCHANGED <<credVars, flagVars, conn, upd_ret>>
    /\ UNCHANGED <<cmdVars, initVars, sideVars>>
    /\ UNCHANGED <<now, auth_access_token, auth_refresh_token, auth_expires_at,
                   auth_signature, auth_ret, auth_caller, mqtt_exists,
                   backoffVars, workerVars, setup_pc, coord_connected,
                   recon_sleeping, loop_queue, histVars>>

\* an async_update_credentials whose finally clause is missing (sensitivity
\* of C12)
UpdateCredentialsReturnKeepsFlag(r) ==
    /\ UNCHANGED m_refreshing
    /\ upd_ret' = r
    /\ poll_pc' = "idle"
    /\ poll_result' = IF r = "raised" THEN "raised" ELSE "ok"

\* async_update_credentials: the result is returned, or the exception leaves,
\* through the finally clause, which clears the refreshing flag; the poll
\* routine goes on with a result and ends with an exception
UpdateCredentialsReturn(r) ==
    /\ m_refreshing' = FALSE
    /\ upd_ret' = r
    /\ poll_pc' = "idle"
    /\ poll_result' = IF r = "raised" THEN "raised" ELSE "ok"

\* async_update_credentials after its sleep(1): async_connect
UpdateCredentialsConnect ==
    /\ poll_pc = "upd_sleep"
    /\ AsyncConnect("upd")
    /\ IF ConnectImmediate = "started"
       THEN /\ fut' = [fut EXCEPT !["upd"] = "pending"]
            /\ poll_pc' = "upd_wait"
            /\ UNCHANGED <<m_refreshing, upd_ret, poll_result>>
       ELSE /\ UpdateCredentialsReturn(ConnectImmediate)
            /\ UNCHANGED fut
    /\ UNCHANGED <<cmdVars, initVars, sideVars>>
    /\ UNCHANGED <<now, authVars, obsVars, mqtt_exists, credVars, m_client,
                   m_connected, m_connecting, backoffVars, conn, w_sig, w_start,
                   w_wait, setup_pc, coord_connected, recon_sleeping, loop_queue,
                   faults, hs, lost_while_refreshing, recon_last>>

\* async_update_credentials: the executor job of its async_connect returned
UpdateCredentialsConnected ==
    /\ poll_pc = "upd_wait"
    /\ fut["upd"] \in {"True", "False"}
    /\ UpdateCredentialsReturn(fut["upd"])
    /\ fut' = [fut EXCEPT !["upd"] = "none"]
    /\ UNCHANGED <<cmdVars, initVars, sideVars>>
    /\ UNCHANGED <<now, authVars, obsVars, mqtt_exists, credVars, m_client,
                   m_connected, m_connecting, backoffVars, conn, w_pc, w_owner,
                   w_sig, w_start, w_wait, setup_pc, coord_connected, recon_sleeping,
                   loop_queue, histVars>>

\* async_update_credentials: one of its awaits (the sleep(1), the connect)
\* raises, e.g. the task is cancelled; an executor job already started runs on,
\* its result awaited by nobody
UpdateCredentialsRaised ==
    /\ poll_pc \in {"upd_sleep", "upd_wait"}
    /\ UpdateCredentialsReturn("raised")
    /\ fut' = [fut EXCEPT !["upd"] = "none"]
    /\ w_owner' = [w \in Workers |-> IF w_owner[w] = "upd" THEN "none" ELSE w_owner[w]]
    /\ UNCHANGED <<cmdVars, initVars, sideVars>>
    /\ UNCHANGED <<now, authVars, obsVars, mqtt_exists, credVars, m_client,
                   m_connected, m_connecting, backoffVars, conn, w_pc, w_sig,
                   w_start, w_wait, setup_pc, coord_connected, recon_sleeping,
                   loop_queue, histVars>>

-----------------------------------------------------------------------------
(* The state after construction *)

-----------------------------------------------------------------------------
(* OAuth Session: auth.py, PhilipsAirplusOAuth2Implementation *)

\* the characters str.strip() and \s take for whitespace, as far as the inputs
\* drawn here contain them
Whitespace == {" ", "\t"}

\* s.lstrip(chars), s.rstrip(chars), s.strip(chars)
RECURSIVE LStrip(_, _)
LStrip(s, chars) ==
    IF s # << >> /\ Head(s) \in chars THEN LStrip(Tail(s), chars) ELSE s

RECURSIVE RStrip(_, _)
RStrip(s, chars) ==
    IF s # << >> /\ s[Len(s)] \in chars
    THEN RStrip(SubSeq(s, 1, Len(s) - 1), chars)
    ELSE s

StripChars(s, chars) == RStrip(LStrip(s, chars), chars)

\* s.strip()
Strip(s) == StripChars(s, Whitespace)

\* the longest prefix of s without a character of stops
RECURSIVE TakeUntil(_, _)
TakeUntil(s, stops) ==
    IF s = << >> \/ Head(s) \in stops
    THEN << >>
    ELSE <<Head(s)>> \o TakeUntil(Tail(s), stops)

\* sub occurs in s at position p
StartsAt(s, p, sub) ==
    /\ p + Len(sub) - 1 <= Len(s)
    /\ SubSeq(s, p, p + Len(sub) - 1) = sub

SCodeEq == <<"c", "o", "d", "e", "=">>
SState == <<"&", "s", "t", "a", "t", "e", "=">>

\* re.search(r"(?:^|[?&])code=([^&\s]+)", raw): the positions of "code=" at
\* which the pattern matches, i.e. at the start or after ? or &, and followed
\* by at least one character that is neither & nor whitespace
CodeMarks(raw) ==
    {p \in 1..Len(raw) :
        /\ StartsAt(raw, p, SCodeEq)
        /\ p = 1 \/ raw[p - 1] \in {"?", "&"}
        /\ p + 5 <= Len(raw)
        /\ raw[p + 5] \notin ({"&"} \cup Whitespace)}

\* match.group(1) of the leftmost match
CodeGroup(raw) ==
    LET p == CHOOSE q \in CodeMarks(raw) : \A r \in CodeMarks(raw) : q <= r
    IN TakeUntil(SubSeq(raw, p + 5, Len(raw)), {"&"} \cup Whitespace)

\* the percent escapes of the characters drawn here that quote() escapes
Escapes == {<<"/", "2", "F">>, <<"%", "2", "5">>, <<"&", "2", "6">>, <<"=", "3", "D">>}

\* urllib.parse.quote(v, safe=''): letters, digits and _.-~ stay, every other
\* character becomes its percent escape
RECURSIVE Quote(_)
Quote(s) ==
    IF s = << >> THEN << >>
    ELSE LET e == {x \in Escapes : x[1] = Head(s)}
         IN (IF e = {} THEN <<Head(s)>>
             ELSE LET x == CHOOSE y \in e : TRUE IN <<"%", x[2], x[3]>>)
            \o Quote(Tail(s))

\* an input that is not unquoted
NoUnquote(s) == s

\* urllib.parse.unquote: every percent escape becomes its character; a % that
\* starts no escape stays
RECURSIVE Unquote(_)
Unquote(s) ==
    IF s = << >> THEN << >>
    ELSE LET e == {x \in Escapes :
                      Len(s) >= 3 /\ Head(s) = "%" /\ x[2] = s[2] /\ x[3] = s[3]}
         IN IF e = {}
            THEN <<Head(s)>> \o Unquote(Tail(s))
            ELSE <<(CHOOSE y \in e : TRUE)[1]>> \o Unquote(SubSeq(s, 4, Len(s)))

\* async_request_token: the code posted for the user's input
Sanitize(code) ==
    LET raw == StripChars(StripChars(Strip(code), {"\""}), {"'"})
        cut == IF StartsAt(raw, 1, SCodeEq) THEN SubSeq(raw, 6, Len(raw)) ELSE raw
    IN Strip(IF CodeMarks(raw) # {}
             THEN Unquote(CodeGroup(raw))
             ELSE TakeUntil(cut, {"&"}))

\* the authorization codes drawn: the strings of at most MaxCodeLen characters
\* over letters, a dot, a slash and a percent sign
CodeAlphabet == {"s", ".", "/", "%"}
Codes == UNION {[1..n -> CodeAlphabet] : n \in 1..MaxCodeLen}

\* the redirect URI the identity provider sends the browser to
RedirectUri ==
    <<"c", "o", "m", ".", "p", "h", "i", "l", "i", "p", "s", ".", "a", "i",
      "r", ":", "/", "/", "l", "o", "g", "i", "n", "r", "e", "d", "i", "r",
      "e", "c", "t">>

\* the forms in which the user hands over the code of flow f: the bare code,
\* the full redirect URL, a query fragment
Forms == {"bare", "url", "fragment"}
FormInput(form, c, f) ==
    CASE form = "bare" -> c
      [] form = "url" ->
            RedirectUri \o <<"?">> \o SCodeEq \o Quote(c) \o SState \o <<Digit(f)>>
      [] OTHER -> SCodeEq \o Quote(c) \o SState \o <<Digit(f)>>

\* inputs that hold no code: nothing, blanks, quotes, a fragment with an
\* empty code
BlankInputs ==
    {<< >>, <<" ">>, <<"\"", "\"">>, <<"'", " ", "'">>,
     SCodeEq \o SState \o <<"1">>, SCodeEq}

\* flow ids: 0 is an id for which no URL was ever generated
FlowIds == 0..MaxFlows

NoRequest ==
    [n |-> 0, input |-> << >>, flow |-> 0, ret |-> "none", code |-> << >>,
     verifier |-> 0, again |-> FALSE]

InitOAuth ==
    /\ flow_store = [f \in FlowIds |-> 0]
    /\ verifier_gen = 0
    /\ rt = NoRequest
    /\ token_posts = 0
    /\ exchanged = {}

\* async_generate_authorize_url(flow_id): a fresh code verifier is stored
\* under the flow id
GenerateAuthorizeUrl(f) ==
    /\ f # 0
    /\ verifier_gen < MaxAuthorize
    /\ verifier_gen' = verifier_gen + 1
    /\ flow_store' = [flow_store EXCEPT ![f] = verifier_gen + 1]
    /\ exchanged' = exchanged \ {f}
    /\ UNCHANGED <<rt, token_posts>>
    /\ UNCHANGED <<now, authVars, obsVars, mqtt_exists, credVars, flagVars,
                   backoffVars, conn, workerVars, coordVars, loop_queue, histVars,
                   cmdVars, initVars, flowFrame>>

\* a lookup that finds a verifier for every flow id
VerifierFoundAlways(f) == TRUE

\* async_request_token: if not code_verifier: raise
VerifierFound(f) == flow_store[f] # 0

\* async_request_token(code, flow_id), the token endpoint answering status
RequestToken(code, f, status) ==
    /\ rt.n < MaxExchange
    /\ LET call == [n |-> rt.n + 1, input |-> code, flow |-> f, ret |-> "none",
                    code |-> << >>, verifier |-> 0, again |-> f \in exchanged]
       IN IF ~VerifierFound(f)
          THEN /\ rt' = [call EXCEPT !.ret = "FlowNotFound"]
               /\ UNCHANGED <<token_posts, exchanged>>
          ELSE IF Sanitize(code) = << >>
          THEN /\ rt' = [call EXCEPT !.ret = "EmptyCode"]
               /\ UNCHANGED <<token_posts, exchanged>>
          ELSE /\ token_posts' = token_posts + 1
               /\ rt' = [call EXCEPT !.code = Sanitize(code),
                                     !.verifier = flow_store[f],
                                     !.ret = IF status = 200
                                             THEN "token"
                                             ELSE "TokenExchangeError"]
               /\ exchanged' = IF status = 200 THEN exchanged \cup {f} ELSE exchanged
    /\ UNCHANGED <<flow_store, verifier_gen>>
    /\ UNCHANGED <<now, authVars, obsVars, mqtt_exists, credVars, flagVars,
                   backoffVars, conn, workerVars, coordVars, loop_queue, histVars,
                   cmdVars, initVars, flowFrame>>

\* status refreshes: coordinator.py, _request_initial_status

\* timedelta(minutes=5), in seconds
FullRequestInterval == 300

\* the ports of a full request in the order of their requests, the shadow get last
FullPorts == <<"Status", "Config", "Filter", "ShadowGet">>

\* the coroutines that can be in _request_initial_status at once
StatusTasks == 1..MaxStatusTasks

\* a coroutine that is not in _request_initial_status
NoStatusTask == [pc |-> 0, run |-> 0]

InitStatus ==
    /\ last_full_request = 0
    /\ status_tasks = [t \in StatusTasks |-> NoStatusTask]
    /\ status_log = << >>

\* a throttle that compares with five seconds
FullDueAfterSeconds == last_full_request = 0 \/ now - last_full_request > 5

\* if not self._last_full_request or (now - self._last_full_request) > 5 minutes
FullDue == last_full_request = 0 \/ now - last_full_request > FullRequestInterval

\* request_port_status / request_shadow_get publishes: the connected guard and
\* the guard of _publish pass (the transport takes what it is handed)
StatusPublished == m_connected /\ m_client

\* the ports a run has published, with this one when it is published
WithPort(ports, port) ==
    IF StatusPublished THEN Append(ports, port) ELSE ports

\* the task created by _async_setup or by a connect notification starts, or
\* async_request_refresh awaits it: _request_initial_status up to its first
\* await. Not connected, it returns; a full request records its start before
\* its first request and goes on after a sleep; otherwise the Status port alone
RequestInitialStatus(t) ==
    /\ status_tasks[t] = NoStatusTask
    /\ Len(status_log) < MaxStatusRuns
    /\ mqtt_exists /\ IsConnected
    /\ status_log' = Append(status_log,
                            [t |-> now, full |-> FullDue,
                             ports |-> WithPort(<< >>, FullPorts[1])])
    /\ IF FullDue
       THEN /\ last_full_request' = now
            /\ status_tasks' = [status_tasks EXCEPT
                                    ![t] = [pc |-> 2, run |-> Len(status_log) + 1]]
       ELSE UNCHANGED <<last_full_request, status_tasks>>
    /\ UNCHANGED <<now, authVars, obsVars, mqtt_exists, credVars, flagVars,
                   backoffVars, conn, workerVars, coordVars, loop_queue, histVars,
                   cmdVars, initVars, statusFrame>>

\* a full request after one of its sleep(0.1): the next port, the shadow get last
RequestNextPort(t) ==
    /\ status_tasks[t] # NoStatusTask
    /\ LET pc == status_tasks[t].pc
           run == status_tasks[t].run
       IN /\ status_log' = [status_log EXCEPT
                                ![run].ports = WithPort(@, FullPorts[pc])]
          /\ status_tasks' = [status_tasks EXCEPT
                                  ![t] = IF pc = Len(FullPorts)
                                         THEN NoStatusTask
                                         ELSE [pc |-> pc + 1, run |-> run]]
    /\ UNCHANGED last_full_request
    /\ UNCHANGED <<now, authVars, obsVars, mqtt_exists, credVars, flagVars,
                   backoffVars, conn, workerVars, coordVars, loop_queue, histVars,
                   cmdVars, initVars, statusFrame>>

\* time passes between the steps of the coroutines
StatusWaits == {150, 151}
StatusWait(d) ==
    /\ now + d <= T0 + MaxStatusTime
    /\ now' = now + d
    /\ UNCHANGED <<authVars, obsVars, sessionVars>>

\* inbound messages: mqtt_client.py _on_message, coordinator.py _on_mqtt_message

\* payloads: bytes that decode as UTF-8 or not, and their text, where "p" stands
\* for the members "data": {"portName": "Status", "properties": {...}}
JsonChars == {"{", "}", "p", "1"}
RECURSIVE TextsOfLen(_)
TextsOfLen(n) ==
    IF n = 0 THEN {<< >>}
    ELSE {Append(t, c) : t \in TextsOfLen(n - 1), c \in JsonChars}
Payloads ==
    {[utf8 |-> u, text |-> t] :
        u \in BOOLEAN, t \in UNION {TextsOfLen(n) : n \in 0..MaxPayloadLen}}

\* json.loads of a text: a number (digits), an object (empty, or with the
\* members p), or JSONDecodeError
JsonLoads(text) ==
    IF text # << >> /\ \A i \in 1..Len(text) : text[i] = "1" THEN "number"
    ELSE IF text = <<"{", "}">> THEN "object"
    ELSE IF text = <<"{", "p", "}">> THEN "status"
    ELSE "JSONDecodeError"

\* msg.payload.decode('utf-8') and json.loads: what the try block has in hand
\* before the callback
Parsed(payload) ==
    IF ~payload.utf8 THEN "UnicodeDecodeError" ELSE JsonLoads(payload.text)

ParseErrors == {"UnicodeDecodeError", "JSONDecodeError"}

\* a handler without its except clauses
OnMessageOutcomeUncaught(payload) ==
    IF Parsed(payload) \in ParseErrors THEN "raised" ELSE "delivered"

\* how _on_message ends: the callback was invoked, or the error was logged
OnMessageOutcome(payload) ==
    IF Parsed(payload) \in ParseErrors THEN "dropped" ELSE "delivered"

NoMessage == [parsed |-> "none", outcome |-> "none"]

InitReceive ==
    /\ msg_count = 0
    /\ msg_last = NoMessage
    /\ msg_queue = << >>
    /\ device_state = 0
    /\ last_update = 0

\* an _on_message whose callback merges the message into the device state on
\* the network thread, with no handoff (sensitivity of C39)
OnMessageWritesState(payload) ==
    /\ m_client
    /\ msg_count < MaxMessages
    /\ msg_count' = msg_count + 1
    /\ msg_last' = [parsed |-> Parsed(payload), outcome |-> OnMessageOutcome(payload)]
    /\ last_update' = IF OnMessageOutcome(payload) = "delivered" THEN now ELSE last_update
    /\ device_state' = IF Parsed(payload) = "status"
                       THEN device_state + 1
                       ELSE device_state
    /\ UNCHANGED <<msg_queue, handoffs>>
    /\ UNCHANGED <<now, authVars, obsVars, mqtt_exists, credVars, flagVars,
                   backoffVars, conn, workerVars, coordVars, loop_queue, histVars,
                   cmdVars, initVars, msgFrame>>

\* _on_message, on the network thread of a transport in place: the callback
\* hands the parsed message to the event loop
OnMessage(payload) ==
    /\ m_client
    /\ msg_count < MaxMessages
    /\ msg_count' = msg_count + 1
    /\ msg_last' = [parsed |-> Parsed(payload), outcome |-> OnMessageOutcome(payload)]
    /\ msg_queue' = IF OnMessageOutcome(payload) = "delivered"
                    THEN Append(msg_queue, Parsed(payload))
                    ELSE msg_queue
    /\ handoffs' = IF OnMessageOutcome(payload) = "delivered"
                   THEN Append(handoffs, "message")
                   ELSE handoffs
    /\ UNCHANGED <<device_state, last_update>>
    /\ UNCHANGED <<now, authVars, obsVars, mqtt_exists, credVars, flagVars,
                   backoffVars, conn, workerVars, coordVars, loop_queue, histVars,
                   cmdVars, initVars, msgFrame>>

\* _on_mqtt_message_in_loop: the time of the update is recorded, a status
\* message is merged into the device state, and what a message that is no
\* object raises is logged
OnMqttMessageInLoop ==
    /\ msg_queue # << >>
    /\ Head(handoffs) = "message"
    /\ handoffs' = Tail(handoffs)
    /\ msg_queue' = Tail(msg_queue)
    /\ last_update' = now
    /\ device_state' = IF Head(msg_queue) = "status"
                       THEN device_state + 1
                       ELSE device_state
    /\ UNCHANGED <<msg_count, msg_last>>
    /\ UNCHANGED <<now, authVars, obsVars, mqtt_exists, credVars, flagVars,
                   backoffVars, conn, workerVars, coordVars, loop_queue, histVars,
                   cmdVars, initVars, msgFrame>>

\* filter information: coordinator.py _get_filter_info

Filters == {"replace", "clean"}

\* hours a device reports, and << >> for a key that is absent
SampleHours == (-1..MaxFilterHours) \cup {150, 200}
FilterValues == {<<n>> : n \in SampleHours} \cup {<< >>}

\* round(x, 1) of x = num / den * 100 with den > 0 and num >= 0, in tenths:
\* to the nearest tenth, a tie to the even one
RoundTenths(num, den) ==
    LET q == (num * 1000) \div den
        r == (num * 1000) % den
    IN IF 2 * r < den THEN q
       ELSE IF 2 * r > den THEN q + 1
       ELSE IF q % 2 = 0 THEN q ELSE q + 1

\* a test that wants a truthy remaining value
PercentageDueRemainingTruthy(nominal, remaining) ==
    /\ nominal \notin {<< >>, <<0>>}
    /\ remaining \notin {<< >>, <<0>>}
    /\ nominal[1] > 0

\* if nominal and remaining is not None and nominal > 0
PercentageDue(nominal, remaining) ==
    /\ nominal \notin {<< >>, <<0>>}
    /\ remaining # << >>
    /\ nominal[1] > 0

\* the fields one filter adds to the filter info
FilterFields(f, nominal, remaining) ==
    IF PercentageDue(nominal, remaining)
    THEN {<<f, "percentage", RoundTenths(remaining[1], nominal[1])>>,
          <<f, "hours_remaining", remaining[1]>>,
          <<f, "hours_total", nominal[1]>>}
    ELSE {}

NoFilterData == [f \in Filters |-> [nominal |-> << >>, remaining |-> << >>]]

\* _get_filter_info has not been called
NoFilterInfo == [ret |-> "unset", fields |-> {}]

InitFilter ==
    /\ filter_data = NoFilterData
    /\ filter_info = NoFilterInfo

\* _get_filter_info(): the fields of the replace filter and of the clean
\* filter, None when there are none
GetFilterInfo ==
    /\ filter_info = NoFilterInfo
    /\ LET fields == UNION {FilterFields(f, filter_data[f].nominal,
                                         filter_data[f].remaining) : f \in Filters}
       IN filter_info' = [ret |-> IF fields = {} THEN "None" ELSE "dict",
                          fields |-> fields]
    /\ UNCHANGED filter_data
    /\ UNCHANGED <<now, authVars, obsVars, mqtt_exists, credVars, flagVars,
                   backoffVars, conn, workerVars, coordVars, loop_queue, histVars,
                   cmdVars, initVars, filterFrame>>

\* the update coordinator logs AuthenticationExpired, which is a plain
\* Exception, as a failed poll cycle and schedules the next cycle; the next
\* cycle's call of ensure_access_token is observed
PollCycleOver ==
    /\ poll_pc = "idle"
    /\ auth_pc = "idle"
    /\ poll_result = "AuthenticationExpired"
    /\ ~expired_raised
    /\ expired_raised' = TRUE
    /\ calls' = 0
    /\ UNCHANGED <<token_gen, posts, pre, last_status, last_body, cbVars>>
    /\ UNCHANGED <<now, authVars, mqtt_exists, credVars, flagVars,
                   backoffVars, conn, workerVars, coordVars, loop_queue, histVars,
                   cmdVars, initVars, reauthFrame>>

\* async_shutdown: the Broker Session is disconnected; nothing else of the
\* session or of the coordinator is touched
AsyncShutdown ==
    /\ mqtt_exists
    /\ ~shut_down
    /\ shut_down' = TRUE
    /\ Disconnect
    /\ UNCHANGED <<now, authVars, obsVars, mqtt_exists, credVars, m_connecting,
                   m_refreshing, backoffVars, workerVars, coordVars, loop_queue,
                   histVars, cmdVars, initVars, shutdownFrame>>

-----------------------------------------------------------------------------
(* Fan entity: fan.py, PhilipsAirplusFan *)

\* lengths of the speed lists drawn
MaxSpeeds == 8

\* speed lists of a model configuration, ordered by intensity: the values
\* 1..n, or 4, 8, .. 4n
SpeedLists == {[i \in 1..n |-> k * i] : n \in 1..MaxSpeeds, k \in {1, 4}}

\* supported_speeds.index(speed): the first position of the speed, from 0
ListIndex(speeds, speed) ==
    (CHOOSE i \in 1..Len(speeds) :
        speeds[i] = speed /\ \A j \in 1..(i - 1) : speeds[j] # speed) - 1

\* round(num / den): to the nearest integer, a tie to the even one
RoundHalfEven(num, den) ==
    LET q == num \div den
        r == num % den
    IN  IF 2 * r < den THEN q
        ELSE IF 2 * r > den THEN q + 1
        ELSE IF q % 2 = 0 THEN q ELSE q + 1

\* math.ceil(num / den) for num >= 0 and den > 0
Ceil(num, den) == (num + den - 1) \div den

\* percentage, of a fan that is on: int(round((idx + 1) / len(speeds) * 100)),
\* and 0 for an empty list or a speed that is not in it
PercentageOf(speeds, speed) ==
    IF speed \in {speeds[i] : i \in 1..Len(speeds)}
    THEN RoundHalfEven((ListIndex(speeds, speed) + 1) * 100, Len(speeds))
    ELSE 0

\* async_set_percentage: the speed handed to set_fan_speed, and 0 when the fan
\* is turned off or the list is empty:
\* idx = max(0, min(math.ceil(percentage / 100 * len(speeds)) - 1, len - 1))
TargetSpeed(speeds, percentage) ==
    IF percentage = 0 \/ Len(speeds) = 0 THEN 0
    ELSE speeds[Max(0, Min(Ceil(percentage * Len(speeds), 100) - 1,
                           Len(speeds) - 1)) + 1]

\* no fan entity is looked at
NoFan == [speeds |-> << >>, speed |-> 0, percentage |-> << >>, sent |-> << >>]

\* the percentage property is read
Percentage ==
    /\ fan.speeds # << >>
    /\ fan.percentage = << >>
    /\ fan' = [fan EXCEPT !.percentage = <<PercentageOf(fan.speeds, fan.speed)>>]
    /\ UNCHANGED <<now, authVars, obsVars, mqtt_exists, credVars, flagVars,
                   backoffVars, conn, workerVars, coordVars, loop_queue, histVars,
                   cmdVars, initVars, fanFrame>>

\* async_set_percentage with the percentage that was read
AsyncSetPercentage ==
    /\ fan.percentage # << >>
    /\ fan.sent = << >>
    /\ fan' = [fan EXCEPT !.sent = <<TargetSpeed(fan.speeds, fan.percentage[1])>>]
    /\ UNCHANGED <<now, authVars, obsVars, mqtt_exists, credVars, flagVars,
                   backoffVars, conn, workerVars, coordVars, loop_queue, histVars,
                   cmdVars, initVars, fanFrame>>

NextFan ==
    \/ Percentage
    \/ AsyncSetPercentage

\* no poll cycle has raised, the coordinator has not been shut down, nothing
\* waits on the event loop and no fan entity is looked at
InitNotes ==
    /\ expired_raised = FALSE
    /\ shut_down = FALSE
    /\ handoffs = << >>
    /\ fan = NoFan

\* the parts modelled on their own, before anything has happened in them
InitSide ==
    InitOAuth /\ InitStatus /\ InitReceive /\ InitFilter /\ InitNotes

\* no command has been issued
NoCmd == [pc |-> "idle", kind |-> "none", id |-> 0, res |-> "none", connected |-> FALSE,
          stayed |-> FALSE]

InitCmd ==
    /\ cmd = NoCmd
    /\ issued = 0
    /\ outbox = << >>
    /\ cmd_log = {}
    /\ auth_user_id = 0
    /\ init = NotInitialized

\* the kinds of call: set_fan_speed, set_mode, set_power, request_port_status
Kinds == {"speed", "mode", "power", "status"}

\* the message a call of a kind publishes first
FirstMessage(kind) ==
    CASE kind \in {"speed", "mode"} -> "setPort"
      [] kind = "power" -> "shadow"
      [] OTHER -> "getPort"

\* a guard that lets every call through
CommandGuardOpen == TRUE

\* the first statement of every command and of request_port_status
CommandGuard == m_connected

\* the first statement of _publish
PublishGuard == m_client /\ m_connected

\* the call in progress returns ret; stayed tells whether the connected flag was
\* set at every statement of the call, status what became of the status request
\* at its end: "none" (not made), "refused" (stopped at the connected guard of
\* request_port_status), "dropped" (stopped at the guard of _publish), "failed"
\* (the transport reported an error) or "sent"
CommandReturn(ret, stayed, status) ==
    /\ cmd' = NoCmd
    /\ cmd_log' = cmd_log \cup {[id |-> cmd.id, kind |-> cmd.kind,
                                 connected |-> cmd.connected, ret |-> ret,
                                 stayed |-> stayed, status |-> status]}

\* only set_fan_speed and set_mode end with a status request
StatusFollowsSpeedAndMode(kind, ok) == kind \in {"speed", "mode"}

\* whether a command goes on to request_port_status(PORT_STATUS) after its own
\* publish: set_fan_speed and set_mode always, set_power after a success
StatusFollows(kind, ok) == kind \in {"speed", "mode"} \/ (kind = "power" /\ ok)

\* set_fan_speed, set_mode, set_power or request_port_status is called: with the
\* session not connected it returns False at once
IssueCommand(kind) ==
    /\ mqtt_exists
    /\ cmd.pc = "idle"
    /\ issued < MaxCommands
    /\ issued' = issued + 1
    /\ IF CommandGuard
       THEN /\ cmd' = [pc |-> "publish", kind |-> kind, id |-> issued + 1,
                       res |-> "none", connected |-> m_connected, stayed |-> TRUE]
            /\ UNCHANGED cmd_log
       ELSE /\ cmd' = NoCmd
            /\ cmd_log' = cmd_log \cup {[id |-> issued + 1, kind |-> kind,
                                         connected |-> m_connected, ret |-> "False",
                                         stayed |-> FALSE, status |-> "none"]}
    /\ UNCHANGED <<now, authVars, obsVars, mqtt_exists, credVars, flagVars,
                   backoffVars, conn, workerVars, coordVars, loop_queue, histVars,
                   outbox, initVars, sideVars>>

\* _publish of the call's own message: the transport's publish succeeds (sent)
\* or reports an error; set_fan_speed and set_mode go on to the status request
\* whatever the result, set_power only after a success
PublishCommand(sent) ==
    /\ cmd.pc = "publish"
    /\ LET ok == PublishGuard /\ sent
           res == IF ok THEN "True" ELSE "False"
       IN /\ outbox' = IF ok
                       THEN Append(outbox, [id |-> cmd.id, msg |-> FirstMessage(cmd.kind)])
                       ELSE outbox
          /\ IF StatusFollows(cmd.kind, ok)
             THEN /\ cmd' = [cmd EXCEPT !.pc = "status", !.res = res,
                                        !.stayed = cmd.stayed /\ m_connected]
                  /\ UNCHANGED cmd_log
             ELSE CommandReturn(res, cmd.stayed /\ m_connected, "none")
    /\ UNCHANGED <<now, authVars, obsVars, mqtt_exists, credVars, flagVars,
                   backoffVars, conn, workerVars, coordVars, loop_queue, histVars,
                   issued, initVars, sideVars>>

\* request_port_status(PORT_STATUS) at the end of a command, then the command
\* returns the result of its own publish
RequestStatusAfter(sent) ==
    /\ cmd.pc = "status"
    /\ outbox' = IF CommandGuard /\ PublishGuard /\ sent
                 THEN Append(outbox, [id |-> cmd.id, msg |-> "getPort"])
                 ELSE outbox
    /\ CommandReturn(cmd.res, cmd.stayed /\ m_connected,
                     IF ~CommandGuard THEN "refused"
                     ELSE IF ~PublishGuard THEN "dropped"
                     ELSE IF sent THEN "sent" ELSE "failed")
    /\ UNCHANGED <<now, authVars, obsVars, mqtt_exists, credVars, flagVars,
                   backoffVars, conn, workerVars, coordVars, loop_queue, histVars,
                   issued, initVars, sideVars>>

\* one step of a command or a status request
CommandStep ==
    \/ \E kind \in Kinds : IssueCommand(kind)
    \/ \E sent \in BOOLEAN : PublishCommand(sent)
    \/ \E sent \in BOOLEAN : RequestStatusAfter(sent)

InitSession ==
    /\ mqtt_exists = FALSE
    /\ mqtt_access_token = 0
    /\ mqtt_signature = 0
    /\ m_client = FALSE
    /\ m_connected = FALSE
    /\ m_connecting = FALSE
    /\ m_refreshing = FALSE
    /\ m_attempts = 0
    /\ m_last_rc = 0
    /\ m_last_time = 0
    /\ conn = "none"
    /\ w_pc = [w \in Workers |-> "idle"]
    /\ w_owner = [w \in Workers |-> "none"]
    /\ w_sig = 0
    /\ w_start = 0
    /\ w_wait = 0
    /\ fut = [a \in Awaiters |-> "none"]
    /\ setup_pc = "init"
    /\ poll_pc = "idle"
    /\ poll_result = "none"
    /\ upd_ret = "none"
    /\ loop_queue = << >>
    /\ coord_connected = FALSE
    /\ recon_sleeping = << >>
    /\ faults = 0
    /\ hs = [token |-> 0, sig |-> 0]
    /\ cc = [ret |-> "none", connected |-> FALSE, by |-> "none"]
    /\ lost_while_refreshing = FALSE
    /\ recon_last = "none"
    /\ InitCmd

InitObs ==
    /\ auth_pc = "idle"
    /\ auth_ret = "none"
    /\ auth_caller = "none"
    /\ token_gen = 1
    /\ calls = 0
    /\ posts = 0
    /\ pre = NoCall
    /\ last_status = 0
    /\ last_body = BodyEmpty
    /\ cb_count = 0
    /\ cb_data = NoPayload
    /\ cb_raised = FALSE
    /\ sig_fetched = "none"
    /\ last_token_data = NoTokenData

\* PhilipsAirplusDataCoordinator.__init__: tokens from the config entry, the
\* stored expiry when there is one
Init ==
    /\ now = T0
    /\ auth_access_token = 1
    /\ auth_refresh_token = 1
    /\ auth_expires_at \in {0, T0 + 3600}
    /\ auth_signature = 0
    /\ InitObs
    /\ InitSession
    /\ InitSide

WorkerStep(w, timed) ==
    \/ BlockingConnectStart(w)
    \/ BackoffSleep(w, timed)
    \/ Rc7Sleep(w, timed)
    \/ BuildHeadersSignature(w)
    \/ \E raised \in BOOLEAN : Handshake(w, raised)
    \/ WaitObserve(w)
    \/ WaitTimeout(w, timed)
    \/ CheckConnected(w)
    \/ Teardown(w)
    \/ Finally(w)

NetworkStep ==
    \/ OnConnectAccepted
    \/ OnConnectRefused
    \/ \E rc \in AbnormalRcs \cup {0} : OnDisconnect(rc)

\* the identity provider and the signature endpoint answer
AuthStep(responses, statuses, texts) ==
    \/ \E token_data \in responses : TokenResponseOk(token_data)
    \/ \E status \in statuses, text \in texts : TokenResponseFail(status, text)
    \/ TokenRequestError
    \/ \E ok \in BOOLEAN : SignatureResponse(ok)

\* the answers the session model draws from: a token response with a refresh
\* token and exp or no expiry; a 400, a 401 or a 500, with an empty body or an
\* invalid_grant error
SessionResponses == {r \in TokenResponses : r.refresh_token /\ r.expires_in = 0}

Next ==
    \/ \E initialized \in BOOLEAN : AsyncSetup(initialized)
    \/ AsyncSetupConnected
    \/ AsyncUpdateData
    \/ AsyncUpdateDataEnsured
    \/ UpdateCredentialsConnect
    \/ UpdateCredentialsConnected
    \/ OnMqttConnectionInLoop
    \/ ReconnectLater(FALSE)
    \/ AuthStep(SessionResponses, {400, 401, 500}, {BodyEmpty, BodyInvalidGrant})
    \/ NetworkStep
    \/ \E w \in Workers : WorkerStep(w, FALSE)

Spec == Init /\ [][Next]_vars

-----------------------------------------------------------------------------
(* The reconnection backoff alone: a disconnected session, whatever its    *)
(* disconnect history, with one delayed reconnect task about to run; the   *)
(* clock runs through the waits of the connect attempt                     *)

\* seconds since the last disconnect when the task runs
Elapsed == {0, 3, 10, 119, 300}

InitBackoff ==
    /\ now = T0
    /\ auth_access_token = 1
    /\ auth_refresh_token = 1
    /\ auth_expires_at = 0
    /\ auth_signature = 1
    /\ InitObs
    /\ mqtt_exists = TRUE
    /\ mqtt_access_token = 1
    /\ mqtt_signature = 1
    /\ m_client = FALSE
    /\ m_connected = FALSE
    /\ m_connecting = FALSE
    /\ m_refreshing = FALSE
    /\ \/ m_attempts = 0 /\ m_last_rc = 0 /\ m_last_time = 0
       \/ /\ m_attempts \in 1..MaxReconnectAttempts
          /\ m_last_rc \in AbnormalRcs
          /\ m_last_time \in {T0 - e : e \in Elapsed}
    /\ conn = "none"
    /\ w_pc = [w \in Workers |-> "idle"]
    /\ w_owner = [w \in Workers |-> "none"]
    /\ w_sig = 0
    /\ w_start = 0
    /\ w_wait = 0
    /\ fut = [a \in Awaiters |-> "none"]
    /\ setup_pc = "ready"
    /\ poll_pc = "idle"
    /\ poll_result = "none"
    /\ upd_ret = "none"
    /\ loop_queue = << >>
    /\ coord_connected = FALSE
    /\ recon_sleeping = <<T0 - ReconnectDelay>>
    /\ faults = 0
    /\ hs = [token |-> 0, sig |-> 0]
    /\ cc = [ret |-> "none", connected |-> FALSE, by |-> "none"]
    /\ lost_while_refreshing = FALSE
    /\ recon_last = "none"
    /\ InitCmd
    /\ InitSide

NextBackoff ==
    \/ ReconnectLater(FALSE)
    \/ OnMqttConnectionInLoop
    \/ NetworkStep
    \/ \E w \in Workers : WorkerStep(w, TRUE)

SpecBackoff == InitBackoff /\ [][NextBackoff]_vars

\* the same session at the ends of the range of its consecutive-disconnect
\* count: none on record, or 1, 31 or 32 of them, the last 10 s ago
InitDisconnects ==
    /\ InitBackoff
    /\ m_attempts \in {0, 1, MaxReconnectAttempts - 1, MaxReconnectAttempts}
    /\ m_last_time \in {0, T0 - 10}

SpecDisconnects == InitDisconnects /\ [][NextBackoff]_vars

-----------------------------------------------------------------------------
(* The credential rotation alone: the session as _async_setup leaves it when *)
(* its connect succeeded, the expiry unknown so that the first poll cycle    *)
(* refreshes; the refresh succeeds, the rotation may defer, reconnect, fail  *)
(* or be interrupted by an exception                                         *)

InitRotateAt(expires_at) ==
    /\ now = T0
    /\ auth_access_token = 1
    /\ auth_refresh_token = 1
    /\ auth_expires_at = expires_at
    /\ auth_signature = 1
    /\ InitObs
    /\ mqtt_exists = TRUE
    /\ mqtt_access_token = 1
    /\ mqtt_signature = 1
    /\ m_client = TRUE
    /\ m_connected = TRUE
    /\ m_connecting = FALSE
    /\ m_refreshing = FALSE
    /\ m_attempts = 0
    /\ m_last_rc = 0
    /\ m_last_time = 0
    /\ conn = "up"
    /\ w_pc = [w \in Workers |-> "idle"]
    /\ w_owner = [w \in Workers |-> IF w = 1 THEN "setup" ELSE "none"]
    /\ w_sig = 0
    /\ w_start = 0
    /\ w_wait = 0
    /\ fut = [a \in Awaiters |-> "none"]
    /\ setup_pc = "ready"
    /\ poll_pc = "idle"
    /\ poll_result = "none"
    /\ upd_ret = "none"
    /\ loop_queue = << >>
    /\ coord_connected = TRUE
    /\ recon_sleeping = << >>
    /\ faults = 0
    /\ hs = [token |-> 1, sig |-> 1]
    /\ cc = [ret |-> "none", connected |-> FALSE, by |-> "none"]
    /\ lost_while_refreshing = FALSE
    /\ recon_last = "none"
    /\ InitCmd
    /\ InitSide

\* the expiry of the access token is not known
InitRotate == InitRotateAt(0)

\* the token response the rotation model draws: a new refresh token, no expiry
RotateResponses == {r \in SessionResponses : r.exp = 0}

NextRotate ==
    \/ AsyncUpdateData
    \/ \E token_data \in RotateResponses : TokenResponseOk(token_data)
    \/ SignatureResponse(TRUE)
    \/ AsyncUpdateDataEnsured
    \/ UpdateCredentialsConnect
    \/ UpdateCredentialsConnected
    \/ UpdateCredentialsRaised
    \/ OnMqttConnectionInLoop
    \/ ReconnectLater(FALSE)
    \/ NetworkStep
    \/ \E w \in Workers : WorkerStep(w, FALSE)

SpecRotate == InitRotate /\ [][NextRotate]_vars

-----------------------------------------------------------------------------
(* The coordinator's reconnect tasks with the clock running: the session is
   down, no failure is on record, and one reconnect task is about to wake. *)

InitReconnect == InitBackoff /\ m_attempts = 0

NextReconnect ==
    \/ OnMqttConnectionInLoop
    \/ ReconnectLater(TRUE)
    \/ NetworkStep
    \/ \E w \in Workers : WorkerStep(w, TRUE)

SpecReconnect == InitReconnect /\ [][NextReconnect]_vars

-----------------------------------------------------------------------------
(* Commands and status requests against a session that was connected by the
   setup, loses its connection and is reconnected by the coordinator's
   reconnect task. *)

NextPublish ==
    \/ CommandStep
    \/ OnMqttConnectionInLoop
    \/ ReconnectLater(FALSE)
    \/ OnConnectAccepted
    \/ \E rc \in AbnormalRcs \cup {0} : OnDisconnect(rc)
    \/ \E w \in Workers : WorkerStep(w, FALSE)

SpecPublish == InitRotate /\ [][NextPublish]_vars

-----------------------------------------------------------------------------
(* The Auth Manager alone: ensure_access_token called at arbitrary moments on  *)
(* an arbitrary credential set                                                 *)

InitAuth ==
    /\ now = T0
    /\ auth_access_token \in {0, 1}
    /\ auth_refresh_token \in {0, 1}
    /\ auth_expires_at \in {0, T0 + TOKEN_REFRESH_BUFFER - 1, T0 + TOKEN_REFRESH_BUFFER,
                            T0 + TOKEN_REFRESH_BUFFER + 1, T0 + TOKEN_REFRESH_BUFFER + 2}
    /\ auth_signature \in {0, 1}
    /\ InitObs
    /\ InitSession
    /\ InitSide

\* the integration before its configuration flow: no tokens, no session
InitUnconfigured ==
    /\ now = T0
    /\ auth_access_token = 0
    /\ auth_refresh_token = 0
    /\ auth_expires_at = 0
    /\ auth_signature = 0
    /\ InitObs
    /\ InitSession

\* inputs of the configuration flows: a bare code, its redirect URL, blanks
SampleCode == <<"s", ".", "/">>
SampleInputs ==
    {SampleCode, FormInput("url", SampleCode, 1), << >>, <<" ">>,
     SCodeEq \o SState \o <<"1">>}

\* the configuration flows: URLs are generated and codes are handed over in
\* any order, for known and unknown flow ids
NextOAuth ==
    \/ \E f \in FlowIds : GenerateAuthorizeUrl(f)
    \/ \E code \in SampleInputs, f \in FlowIds, status \in {200, 400} :
           RequestToken(code, f, status)

\* no configuration flow has started
InitFlows == InitUnconfigured /\ InitSide

SpecOAuth == InitFlows /\ [][NextOAuth]_vars

\* the user's input of one async_request_token call: a code in one of the
\* three forms, or an input without a code; the URL of the flow was generated
InitSanitize ==
    /\ InitUnconfigured
    /\ flow_store = [f \in FlowIds |-> IF f = 1 THEN 1 ELSE 0]
    /\ verifier_gen = 1
    /\ rt \in {[NoRequest EXCEPT !.input = code] :
                  code \in {FormInput(form, c, 1) : form \in Forms, c \in Codes}
                           \cup BlankInputs}
    /\ token_posts = 0
    /\ exchanged = {}
    /\ InitStatus
    /\ InitReceive
    /\ InitFilter
    /\ InitNotes

\* async_request_token with that input
RequestTokenGiven ==
    /\ rt.n = 0
    /\ \E status \in {200, 400} : RequestToken(rt.input, 1, status)

SpecSanitize == InitSanitize /\ [][RequestTokenGiven]_vars

\* status refreshes of a connected session, in any order and at any time, the
\* session dropping in between
NextStatus ==
    \/ \E t \in StatusTasks : RequestInitialStatus(t)
    \/ \E t \in StatusTasks : RequestNextPort(t)
    \/ \E d \in StatusWaits : StatusWait(d)
    \/ \E rc \in {0, 7} : OnDisconnect(rc)
    \/ OnMqttConnectionInLoop

SpecStatus == InitRotate /\ [][NextStatus]_vars

\* payloads arrive on a connected session, which may drop, and time passes
NextReceive ==
    \/ \E payload \in Payloads : OnMessage(payload)
    \/ OnMqttMessageInLoop
    \/ OnMqttConnectionInLoop
    \/ \E rc \in {0, 7} : OnDisconnect(rc)
    \/ Tick(1)

SpecReceive == InitRotate /\ [][NextReceive]_vars

\* _get_filter_info on filter data of any sample values
InitFilterGiven ==
    /\ InitUnconfigured
    /\ InitOAuth /\ InitStatus /\ InitReceive /\ InitNotes
    /\ filter_data \in [Filters -> [nominal : FilterValues,
                                     remaining : FilterValues \ {<<-1>>}]]
    /\ filter_info = NoFilterInfo

SpecFilter == InitFilterGiven /\ [][GetFilterInfo]_vars

\* a fan that is on, with any speed list and any of its speeds reported
InitFanGiven ==
    /\ InitUnconfigured
    /\ InitOAuth /\ InitStatus /\ InitReceive /\ InitFilter
    /\ expired_raised = FALSE
    /\ shut_down = FALSE
    /\ handoffs = << >>
    /\ fan \in UNION {{[NoFan EXCEPT !.speeds = speeds, !.speed = speeds[i]] :
                          i \in 1..Len(speeds)} : speeds \in SpeedLists}

SpecFan == InitFanGiven /\ [][NextFan]_vars

\* token upkeep with the clock running: the setup has connected the session,
\* the access token is outside its refresh window and enters it twenty seconds
\* later, or is inside it and expires twenty seconds later
InitUpkeep ==
    \E expires_at \in {T0 + TOKEN_REFRESH_BUFFER + 20, T0 + 20} : InitRotateAt(expires_at)

NextUpkeep ==
    \/ AsyncUpdateData
    \/ \E token_data \in RotateResponses : TokenResponseOk(token_data)
    \/ SignatureResponse(TRUE)
    \/ AsyncUpdateDataEnsured
    \/ UpdateCredentialsConnect
    \/ UpdateCredentialsConnected
    \/ UpdateCredentialsRaised
    \/ OnMqttConnectionInLoop
    \/ ReconnectLater(TRUE)
    \/ NetworkStep
    \/ \E w \in Workers : WorkerStep(w, TRUE)

SpecUpkeep == InitUpkeep /\ [][NextUpkeep]_vars

\* poll cycles of a connected session whose refresh is rejected by the identity
\* provider, and the cycles after that
NextExpired ==
    \/ NextRotate
    \/ \E status \in {400, 401}, text \in {BodyEmpty, BodyInvalidGrant} :
           TokenResponseFail(status, text)
    \/ PollCycleOver

SpecExpired == InitRotate /\ [][NextExpired]_vars

\* the coordinator is shut down at any moment of a reconnection
NextShutdown ==
    \/ NextReconnect
    \/ AsyncShutdown

SpecShutdown == InitReconnect /\ [][NextShutdown]_vars

\* the update interval of the coordinator is over: the next poll cycle may run
PollIntervalOver ==
    /\ poll_pc = "idle"
    /\ auth_pc = "idle"
    /\ calls = MaxCalls
    /\ calls' = 0
    /\ UNCHANGED <<token_gen, posts, pre, last_status, last_body, last_token_data,
                   cbVars>>
    /\ UNCHANGED <<now, authVars, sessionVars>>

\* a token response whose expiry lies an hour ahead, so that only one poll
\* cycle refreshes
LongLivedResponses ==
    {r \in TokenResponses : r.refresh_token /\ r.exp = 0 /\ r.expires_in = 3600}

\* the executor thread of a connect attempt whose handshake does not raise
ConnectStep(w) ==
    \/ BlockingConnectStart(w)
    \/ BackoffSleep(w, FALSE)
    \/ Rc7Sleep(w, FALSE)
    \/ BuildHeadersSignature(w)
    \/ Handshake(w, FALSE)
    \/ WaitObserve(w)
    \/ WaitTimeout(w, FALSE)
    \/ CheckConnected(w)
    \/ Teardown(w)
    \/ Finally(w)

\* poll cycle after poll cycle of a connected session whose token is refreshed
\* once, while the connection may be lost once
NextRetry ==
    \/ AsyncUpdateData
    \/ PollIntervalOver
    \/ \E token_data \in LongLivedResponses : TokenResponseOk(token_data)
    \/ SignatureResponse(TRUE)
    \/ AsyncUpdateDataEnsured
    \/ UpdateCredentialsConnect
    \/ UpdateCredentialsConnected
    \/ OnMqttConnectionInLoop
    \/ ReconnectLater(FALSE)
    \/ NetworkStep
    \/ \E w \in Workers : ConnectStep(w)

\* the event loop runs every coroutine and handoff that is ready, the update
\* interval keeps coming round, the identity provider answers, the executor
\* threads run, and the broker accepts a handshake whenever handshakes keep
\* waiting for it
FairRetry ==
    /\ WF_vars(AsyncUpdateData)
    /\ WF_vars(PollIntervalOver)
    /\ WF_vars(\E token_data \in LongLivedResponses : TokenResponseOk(token_data))
    /\ WF_vars(SignatureResponse(TRUE))
    /\ WF_vars(AsyncUpdateDataEnsured)
    /\ WF_vars(UpdateCredentialsConnect)
    /\ WF_vars(UpdateCredentialsConnected)
    /\ WF_vars(OnMqttConnectionInLoop)
    /\ WF_vars(ReconnectLater(FALSE))
    /\ \A w \in Workers : WF_vars(ConnectStep(w))
    /\ SF_vars(OnConnectAccepted)

SpecRetry == InitRotate /\ [][NextRetry]_vars /\ FairRetry

\* recovery of a session that has lost its connection, its reconnect task
\* asleep: the loop and the executor threads keep running every step that stays
\* possible, and the broker accepts a handshake whenever handshakes keep
\* waiting for it
FairRecover ==
    /\ WF_vars(OnMqttConnectionInLoop)
    /\ WF_vars(ReconnectLater(TRUE))
    /\ \A w \in Workers : WF_vars(WorkerStep(w, TRUE))
    /\ SF_vars(OnConnectAccepted)

SpecRecover == InitReconnect /\ [][NextReconnect]_vars /\ FairRecover

\* the connect attempts of such a session, every wait a suspension of
\* unspecified length; each executor thread keeps running, and nothing is
\* assumed of the broker or of the event loop
NextAttempts ==
    \/ OnMqttConnectionInLoop
    \/ ReconnectLater(FALSE)
    \/ NetworkStep
    \/ \E w \in Workers : WorkerStep(w, FALSE)

FairAttempts == \A w \in Workers : WF_vars(WorkerStep(w, FALSE))

SpecAttempts == InitReconnect /\ [][NextAttempts]_vars /\ FairAttempts

NextInitialize ==
    \/ Initialize
    \/ \E outcome \in FetchOutcomes : FetchUserId(outcome)
    \/ \E outcome \in FetchOutcomes : FetchSignature(outcome)

\* initialize() on an Auth Manager as the constructor leaves it: tokens as
\* configured, no signature yet
InitInitialize == InitAuth /\ auth_signature = 0

SpecInitialize == InitInitialize /\ [][NextInitialize]_vars

NextAuth ==
    \/ EnsureDirect
    \/ AuthStep(TokenResponses, FailStatuses, Bodies)
    \/ \E ok \in BOOLEAN : CallbackRaises(ok)
    \/ DirectReturn
    \/ Tick(1)

SpecAuth == InitAuth /\ [][NextAuth]_vars

\* the same, the identity provider also answering 200 without an access token
NextRefresh ==
    \/ NextAuth
    \/ \E token_data \in TokenResponses : TokenResponseWithoutAccessToken(token_data)

SpecRefresh == InitAuth /\ [][NextRefresh]_vars

-----------------------------------------------------------------------------
(* Properties *)

\* the refresh failures that mean the refresh token is revoked or expired:
\* HTTP 401, or HTTP 400 whose body carries invalid_grant
Revoked(status, body) ==
    status = 401 \/ (status = 400 /\ Contains(body, SInvalidGrant))

\* the thread positions at which _blocking_connect holds the connecting flag
Holding ==
    {"backoff", "rc7", "headers", "handshake", "wait", "check", "teardown",
     "fin_true", "fin_false"}

\* seconds between the last disconnect and the moment the attempt that is about
\* to build its headers began to wait
ElapsedAtStart == now - w_wait - m_last_time

\* min(1 * 2^(attempts - 1), 300); 2^9 is already beyond the cap
ClaimedBackoff(attempts) ==
    IF attempts >= 10 THEN 300 ELSE Min(2 ^ (attempts - 1), 300)

\* C1: the headers of every connection handshake carry an access token and a
\* signature of the same refresh generation.  (Stated as the specification
\* states it; it does not hold of the code.)
C1_HandshakeSameGeneration == hs.token = hs.sig

\* the poll routine is about to call async_update_credentials: the refresh
\* returned True and the access token has changed
C2_UpdateCalled ==
    /\ poll_pc = "ensure"
    /\ auth_pc = "done"
    /\ auth_caller = "poll"
    /\ auth_ret = "True"
    /\ mqtt_exists
    /\ mqtt_access_token # auth_access_token

\* C2: async_update_credentials, called with a changed access token while a
\* connect attempt is in flight, returns False at once and leaves the stored
\* access token and signature as they were.  (Stated as the specification
\* states it; it does not hold of the code.)
C2_BusyUpdateKeepsCredentials ==
    [][(C2_UpdateCalled /\ m_connecting /\ poll_pc' # "ensure")
          => (upd_ret' = "False" /\ UNCHANGED credVars)]_vars

\* C3, as stated: at most one connect attempt holds the connecting flag, and a
\* connect call made while one holds it returns False at once.
C3_BusyConnectReturnsFalse ==
    /\ Cardinality({w \in Workers : w_pc[w] \in Holding}) <= 1
    /\ cc.by # "none" => cc.ret = "False"

\* C3, amended: at most one connect attempt holds the connecting flag; a
\* connect call made while one holds it returns at once, without sleeping,
\* queuing a job or creating a transport: async_connect returns True when the
\* connected flag is already set and False otherwise, _blocking_connect
\* returns False.
C3_BusyConnectReturnsAtOnce ==
    /\ Cardinality({w \in Workers : w_pc[w] \in Holding}) <= 1
    /\ (\E w \in Workers : w_pc[w] \in Holding) <=> m_connecting
    /\ cc.by = "async_connect" => cc.ret = (IF cc.connected THEN "True" ELSE "False")
    /\ cc.by = "_blocking_connect" => cc.ret = "False"

\* a connect call was refused while an attempt holds the flag
C3_BusyConnectRefused ==
    /\ cc.by = "async_connect"
    /\ cc.ret = "False"
    /\ m_connecting
    /\ \E w \in Workers : w_pc[w] \in Holding

\* C4: a refresh that fails with HTTP 401, or with HTTP 400 and invalid_grant
\* in the body, clears the stored refresh token and raises
\* AuthenticationExpired.
C4_RevokedClearsRefreshToken ==
    (auth_pc = "done" /\ Revoked(last_status, last_body))
        => (auth_refresh_token = 0 /\ auth_ret = "AuthenticationExpired")

\* a refresh with a stored refresh token was answered 400 invalid_grant
C4_InvalidGrantSeen ==
    /\ auth_pc = "done"
    /\ pre.refresh_token # 0
    /\ last_status = 400
    /\ Contains(last_body, SInvalidGrant)
    /\ auth_refresh_token = 0
    /\ auth_ret = "AuthenticationExpired"

\* C5: a refresh that fails in any other way (HTTP 500 with whatever body, any
\* other status, no response at all) returns False and leaves the refresh
\* token, the access token, the expiry and the signature as they were.
\* (Stated as the specification states it; it does not hold of the code.)
C5_OtherFailureKeepsCredentials ==
    (auth_pc = "done" /\ last_status \notin {0, 200}
        /\ ~Revoked(last_status, last_body))
        => /\ auth_ret = "False"
           /\ auth_refresh_token = pre.refresh_token
           /\ auth_access_token = pre.access_token
           /\ auth_expires_at = pre.expires_at
           /\ auth_signature = pre.signature

\* C6: with a refresh token configured, ensure_access_token issues no refresh
\* when now + 15 minutes <= expires_at, and exactly one when the expiry is
\* unknown or now + 15 minutes > expires_at.
C6_RefreshOnlyWhenDue ==
    (auth_pc # "idle" /\ pre.refresh_token # 0)
        => posts = (IF pre.expires_at # 0 /\ pre.now + 15 * 60 <= pre.expires_at
                    THEN 0 ELSE 1)

\* a call made exactly 15 minutes before the expiry returned without a refresh
C6_CalledAtBufferEdge ==
    /\ auth_pc = "done"
    /\ pre.refresh_token # 0
    /\ pre.expires_at = pre.now + 15 * 60
    /\ posts = 0
    /\ auth_ret = "True"

\* C7: when the refresh fails because the refresh token is revoked or expired,
\* AuthenticationExpired comes out of ensure_access_token and out of the poll
\* routine, which ends there; the refresh is issued once in that cycle.
C7_ExpiredPropagates ==
    [][/\ (auth_pc = "post" /\ auth_pc' = "done" /\ Revoked(last_status', last_body'))
            => (auth_ret' = "AuthenticationExpired" /\ posts' = 1)
       /\ (poll_pc = "ensure" /\ poll_pc' # "ensure"
              /\ auth_ret = "AuthenticationExpired")
            => /\ poll_result' = "AuthenticationExpired"
               /\ poll_pc' = "idle"
               /\ auth_pc' = "idle"
               /\ posts' = 1
               /\ UNCHANGED <<credVars, flagVars>>]_vars

\* a poll cycle ended with AuthenticationExpired
C7_PollRaisedExpired ==
    /\ poll_result = "AuthenticationExpired"
    /\ poll_pc = "idle"
    /\ auth_pc = "idle"
    /\ auth_refresh_token = 0
    /\ posts = 1

\* C8: while the refreshing flag is set, no connected=False notification is
\* delivered to the registered connection callback.  (Stated as the
\* specification states it; it does not hold of the code.)
C8_NoLossCallbackWhileRefreshing == ~lost_while_refreshing

\* C9, as stated: after a disconnect with cause 7 the wait before the next
\* handshake is 120 s minus the time elapsed since the disconnect, whatever the
\* attempt count (110 s for a disconnect 10 s ago, for counts 1 to 32).
C9_Rc7WaitIsCooldownRemainder ==
    \A w \in Workers :
        (w_pc[w] = "headers" /\ m_last_rc = 7 /\ ElapsedAtStart < 120)
            => w_wait = 120 - ElapsedAtStart

\* C9, amended: after a disconnect with cause 7 the wait before the next
\* handshake is the longer of 120 s and the exponential backoff, minus the time
\* elapsed since the disconnect, and nothing when that much has elapsed; for a
\* disconnect 10 s ago it is 110 s for attempt counts 1 to 7.
C9_Rc7WaitIsLongerRemainder ==
    \A w \in Workers :
        (w_pc[w] = "headers" /\ m_last_rc = 7)
            => /\ w_wait = Max(0, Max(120, ClaimedBackoff(m_attempts)) - ElapsedAtStart)
               /\ (m_attempts <= 7 /\ ElapsedAtStart = 10) => w_wait = 110

\* an attempt after eight cause-7 disconnects, the last 10 s ago, waited 118 s
C9_EighthAttemptWaited ==
    \E w \in Workers :
        /\ w_pc[w] = "headers"
        /\ m_last_rc = 7
        /\ m_attempts = 8
        /\ ElapsedAtStart = 10
        /\ w_wait = 118

\* C10, as stated: after an abnormal disconnect the attempt waits the part of
\* min(1 * 2^(attempts - 1), 300) s not yet elapsed since the disconnect; after
\* a clean disconnect or a successful connect it waits nothing.
C10_AbnormalWaitIsBackoffRemainder ==
    \A w \in Workers :
        w_pc[w] = "headers"
            => /\ m_last_rc # 0
                    => w_wait = Max(0, ClaimedBackoff(m_attempts) - ElapsedAtStart)
               /\ m_last_rc = 0 => w_wait = 0

\* C10, amended: after an abnormal disconnect with a cause other than 7 the
\* attempt waits the part of min(1 * 2^(attempts - 1), 300) s not yet elapsed
\* since the disconnect (4 s right after three disconnects); after a clean
\* disconnect or a successful connect it waits nothing.
C10_BackoffRemainderUnlessRc7 ==
    \A w \in Workers :
        w_pc[w] = "headers"
            => /\ m_last_rc \notin {0, 7}
                    => w_wait = Max(0, ClaimedBackoff(m_attempts) - ElapsedAtStart)
               /\ (m_last_rc \notin {0, 7} /\ m_attempts = 3 /\ ElapsedAtStart = 0)
                    => w_wait = 4
               /\ m_last_rc = 0 => w_wait = 0

\* an attempt right after the third abnormal disconnect waited 4 s
C10_ThirdAttemptWaited ==
    \E w \in Workers :
        /\ w_pc[w] = "headers"
        /\ m_last_rc = 1
        /\ m_attempts = 3
        /\ ElapsedAtStart = 0
        /\ w_wait = 4

C12_RefreshingOnlyInsideUpdate ==
    poll_pc \notin {"upd_sleep", "upd_wait"}
        => (~m_refreshing /\ IsConnected = m_connected)

\* the rotation's reconnect failed and the call returned False: is_connected
\* reports the loss
C12_ReturnedAfterFailedReconnect ==
    /\ upd_ret = "False"
    /\ poll_pc = "idle"
    /\ hs.token = mqtt_access_token
    /\ hs.token > 1
    /\ ~m_connected
    /\ ~IsConnected

\* C13: a command or status request issued while the session is not connected
\* returns False, publishes nothing, and is never published later, a reconnect
\* included: no call that was issued unconnected is in progress, and no message
\* of such a call is in the outbox
C13_UnconnectedCallNeverPublished ==
    /\ cmd.pc # "idle" => cmd.connected
    /\ \A r \in cmd_log :
           ~r.connected =>
               /\ r.ret = "False"
               /\ \A j \in 1..Len(outbox) : outbox[j].id # r.id

\* a call was refused while unconnected and, after the reconnect, a later call
\* was published
C13_PublishedAfterRefusedCall ==
    /\ m_connected
    /\ \E r \in cmd_log :
           /\ ~r.connected
           /\ \E j \in 1..Len(outbox) : outbox[j].id > r.id

\* the event loop runs a notification handoff
NotificationStep == loop_queue # << >> /\ loop_queue' = Tail(loop_queue)

\* a reconnect task wakes from its sleep
WakeStep == recon_sleeping # << >> /\ recon_sleeping' = Tail(recon_sleeping)

\* C14: each disconnect notification the coordinator receives schedules one
\* reconnect attempt (a connected one schedules none); the attempt runs no
\* earlier than 30 s after the notification, and starts no connect when the
\* coordinator's flag, as the latest notification left it, says connected
C14_OneReconnectPerDisconnect ==
    [][/\ NotificationStep =>
              recon_sleeping' = IF Head(loop_queue)
                                THEN recon_sleeping
                                ELSE Append(recon_sleeping, now)
       /\ ~NotificationStep /\ ~WakeStep => recon_sleeping' = recon_sleeping
       /\ WakeStep =>
              /\ now' >= Head(recon_sleeping) + 30
              /\ coord_connected => UNCHANGED <<w_pc, w_owner, cc, flagVars>>]_vars

\* the two tasks of a refused connect have run: the first reconnected, the
\* second woke after the coordinator was told that the connection is back
C14_TaskWokeWhileConnected ==
    /\ recon_last = "skip"
    /\ coord_connected
    /\ recon_sleeping = << >>
    /\ now >= T0 + 2 * ReconnectDelay
    /\ \A w \in Workers : w_pc[w] = "idle"

\* a refresh_access_token call has stored a token response and returned
Refreshed == auth_pc = "done" /\ posts = 1 /\ last_status = 200

\* C15: a refresh_access_token call that returns True has awaited the token
\* callback exactly once, with the access token, refresh token and expiry it
\* stored; when the callback raised the call still returned True and the
\* stored values are those of the token response
C15_CallbackOncePerRefresh ==
    /\ auth_pc = "done" /\ posts = 1 /\ auth_ret = "True" =>
           /\ cb_count = 1
           /\ cb_data = CallbackPayload
    /\ auth_pc = "done" /\ cb_raised =>
           /\ auth_ret = "True"
           /\ cb_data = CallbackPayload
           /\ auth_access_token = token_gen

\* a refresh returned True although its token callback raised
C15_CallbackRaisedStillTrue ==
    /\ Refreshed
    /\ cb_raised
    /\ cb_count = 1
    /\ auth_ret = "True"
    /\ cb_data.access_token = token_gen
    /\ cb_data.expires_at > now

\* C16: when the token exchange succeeded and the signature re-fetch failed,
\* refresh_access_token returns True, the new tokens are stored and the token
\* callback has been awaited
C16_SignatureFailureNotFatal ==
    auth_pc = "done" /\ sig_fetched = "failed" =>
        /\ auth_ret = "True"
        /\ last_status = 200
        /\ auth_access_token = token_gen
        /\ auth_refresh_token # 0
        /\ cb_count = 1
        /\ cb_data.access_token = token_gen

\* a refresh returned True with the signature of the previous token
C16_ReturnedWithStaleSignature ==
    /\ Refreshed
    /\ sig_fetched = "failed"
    /\ auth_ret = "True"
    /\ auth_signature # auth_access_token
    /\ cb_count = 1

\* C17: after a successful refresh the expiry is the response's exp when the
\* response carries exp, with or without expires_in, and the clock at the
\* response plus expires_in when it carries expires_in alone
C17_ExpiryFromResponse ==
    Refreshed =>
        /\ last_token_data.exp # 0 => auth_expires_at = last_token_data.exp
        /\ last_token_data.exp = 0 /\ last_token_data.expires_in # 0 =>
               auth_expires_at = last_token_data.at + last_token_data.expires_in

\* a refresh stored the exp of a response whose expires_in says otherwise
C17_ExpOverExpiresIn ==
    /\ Refreshed
    /\ last_token_data.exp # 0
    /\ last_token_data.expires_in # 0
    /\ last_token_data.exp # last_token_data.at + last_token_data.expires_in
    /\ auth_expires_at = last_token_data.exp
    /\ auth_expires_at # pre.expires_at

\* C18: a successful refresh stores the response's refresh token when the
\* response carries one and keeps the previous one when it does not; the
\* refresh token is set afterwards
C18_RefreshTokenReplacedOrKept ==
    Refreshed =>
        /\ last_token_data.refresh_token => auth_refresh_token = token_gen
        /\ ~last_token_data.refresh_token => auth_refresh_token = pre.refresh_token
        /\ auth_refresh_token # 0

\* a refresh whose response carried no refresh token kept the previous one next
\* to the new access token
C18_KeptPreviousRefreshToken ==
    /\ Refreshed
    /\ ~last_token_data.refresh_token
    /\ auth_refresh_token = pre.refresh_token
    /\ auth_refresh_token # 0
    /\ auth_access_token = token_gen
    /\ auth_access_token # pre.access_token

\* C19: with no refresh token, ensure_access_token posts no refresh request,
\* leaves the credentials as they were, and returns True exactly when an access
\* token is present
C19_NoRefreshTokenNoRequest ==
    auth_pc = "done" /\ pre.refresh_token = 0 =>
        /\ posts = 0
        /\ last_status = 0
        /\ cb_count = 0
        /\ auth_access_token = pre.access_token
        /\ auth_refresh_token = pre.refresh_token
        /\ auth_expires_at = pre.expires_at
        /\ auth_signature = pre.signature
        /\ auth_ret = (IF auth_access_token # 0 THEN "True" ELSE "False")

\* ensure_access_token returned False for want of both tokens, the stored
\* expiry being in the past
C19_ReturnedFalseWithoutTokens ==
    /\ auth_pc = "done"
    /\ calls = 1
    /\ pre.refresh_token = 0
    /\ auth_access_token = 0
    /\ auth_expires_at # 0
    /\ auth_expires_at < now + TOKEN_REFRESH_BUFFER
    /\ auth_ret = "False"

\* C20: initialize() returns False with no request sent when the access token
\* is empty, returns False when the user-id fetch or the signature fetch
\* fails, and returns True only when both fetches succeeded and user_id and
\* signature are both set
C20_InitializeTrueMeansBothSet ==
    init.pc = "done" =>
        /\ auth_access_token = 0 => init.ret = "False" /\ init.gets = 0
        /\ init.user = "failed" \/ init.sig = "failed" => init.ret = "False"
        /\ init.ret = "True" =>
               /\ init.user # "failed" /\ init.sig # "failed"
               /\ auth_user_id # 0
               /\ auth_signature # 0

\* C21: a PKCE exchange context is consumed exactly once: once a code has been
\* exchanged for a flow id, no verifier is stored for it, and a further
\* request_token for that flow id fails as flow-not-found
C21_ContextConsumedOnce ==
    /\ \A f \in exchanged : flow_store[f] = 0
    /\ rt.again => rt.ret = "FlowNotFound"

\* an async_request_token call returns
RequestTokenStep == rt' # rt

\* the call sent no token POST and left the stored flow contexts alone
NothingSent == token_posts' = token_posts /\ flow_store' = flow_store

\* C22: request_token fails before any token POST when no code verifier is
\* stored for the flow id, or when the sanitized code is empty, and leaves the
\* stored flow contexts as they were
C22_FailsBeforePost ==
    [][RequestTokenStep =>
          /\ flow_store[rt'.flow] = 0 => rt'.ret = "FlowNotFound" /\ NothingSent
          /\ flow_store[rt'.flow] # 0 /\ Sanitize(rt'.input) = << >> =>
                 rt'.ret = "EmptyCode" /\ NothingSent
          /\ rt'.ret \in {"FlowNotFound", "EmptyCode"} => NothingSent]_vars

\* after an exchange was posted, a call with an input that holds no code has
\* failed as empty although a verifier is stored for its flow
C22_EmptyCodeAfterPost ==
    /\ rt.ret = "EmptyCode"
    /\ rt.input # << >>
    /\ flow_store[rt.flow] # 0
    /\ token_posts = 1

\* C23: for every authorization code, the code of the token POST is that code
\* whether the input was the bare code, the redirect URL carrying it or the
\* query fragment carrying it
C23_SameCodeFromEveryForm ==
    rt.n = 1 =>
        \A form \in Forms, c \in Codes :
            rt.input = FormInput(form, c, 1) =>
                /\ rt.ret \in {"token", "TokenExchangeError"}
                /\ rt.code = c

\* a code with a slash was posted from a redirect URL that carries it escaped
C23_PostedFromEscapedUrl ==
    /\ rt.ret = "token"
    /\ StartsAt(rt.input, 1, RedirectUri)
    /\ Contains(rt.input, <<"%", "2", "F">>)
    /\ Contains(rt.code, <<"/">>)
    /\ ~Contains(rt.code, <<"%", "2", "F">>)

\* the returned speed, mode and power commands that published their own message
\* with the connected flag set at every statement of the call
PublishedCommands ==
    {r \in cmd_log : r.kind \in {"speed", "mode", "power"} /\ r.ret = "True" /\ r.stayed}

\* the index in the outbox of the own message of the call r
OwnMessageAt(r, j) ==
    /\ j \in 1..Len(outbox)
    /\ outbox[j] = [id |-> r.id, msg |-> FirstMessage(r.kind)]

\* C24 (as stated): after every speed, mode or power command that is published
\* successfully while the session stays Connected, a Status-port status request
\* is published next, before the call returns, with no other outbound message in
\* between
C24_StatusRequestPublishedNext ==
    \A r \in PublishedCommands :
        \E j \in 1..Len(outbox) :
            /\ OwnMessageAt(r, j)
            /\ j < Len(outbox)
            /\ outbox[j + 1] = [id |-> r.id, msg |-> "getPort"]

\* C24 (amended): after every such command the Status-port status request is
\* made next, before the call returns, and passes the connected guard; it is
\* the next outbound message when the transport is in place and accepts it,
\* and otherwise the call has published nothing but its own message
C24_StatusRequestIssuedNext ==
    \A r \in PublishedCommands :
        /\ r.status \in {"sent", "failed", "dropped"}
        /\ \E j \in 1..Len(outbox) :
               /\ OwnMessageAt(r, j)
               /\ r.status = "sent" =>
                      /\ j < Len(outbox)
                      /\ outbox[j + 1] = [id |-> r.id, msg |-> "getPort"]
               /\ r.status # "sent" =>
                      \A k \in 1..Len(outbox) : outbox[k].id = r.id => k = j

\* a power command and a speed command have both returned True with the session
\* connected throughout, each followed at once by its status request
C24_PowerAndSpeedFollowedByStatus ==
    /\ \E r \in PublishedCommands : r.kind = "power" /\ r.status = "sent"
    /\ \E r \in PublishedCommands : r.kind = "speed" /\ r.status = "sent"
    /\ Len(outbox) = 4

\* the runs of the status log that were full requests
FullRuns == {i \in 1..Len(status_log) : status_log[i].full}

\* C25: two full multi-port status requests are never started less than 5
\* minutes apart, overlapping status tasks included, and every other status
\* refresh requests the Status port alone
C25_FullRequestsThrottled ==
    /\ \A i, j \in FullRuns :
           i < j => status_log[j].t - status_log[i].t >= FullRequestInterval
    /\ \A i \in 1..Len(status_log) :
           ~status_log[i].full => status_log[i].ports \in {<< >>, <<"Status">>}

\* a full request is still between its ports when a second refresh starts and
\* requests the Status port alone, and the next full request starts five
\* minutes and a second after the first
C25_SecondFullAfterFiveMinutes ==
    /\ Len(status_log) = 3
    /\ status_log[1].full /\ status_log[1].ports = FullPorts
    /\ ~status_log[2].full /\ status_log[2].t = status_log[1].t
    /\ status_log[2].ports = <<"Status">>
    /\ status_log[3].full /\ status_log[3].t = status_log[1].t + FullRequestInterval + 1

\* _on_message has handled a payload
OnMessageStep == msg_count' # msg_count

\* C26: an inbound payload that is not valid JSON is dropped: the message
\* callback is not invoked, no exception escapes the receive path, and the
\* connection state and the coordinator's device state are unchanged
C26_MalformedPayloadDropped ==
    [][(OnMessageStep /\ msg_last'.parsed \in ParseErrors) =>
           /\ msg_last'.outcome = "dropped"
           /\ UNCHANGED <<msg_queue, handoffs, device_state, last_update>>
           /\ UNCHANGED <<flagVars, backoffVars, conn, coordVars, loop_queue, credVars>>]_vars

\* a status message was merged into the device state, and the malformed
\* payload that followed it was dropped
C26_DroppedAfterStatus ==
    /\ device_state = 1
    /\ msg_count = 2
    /\ msg_last.outcome = "dropped"
    /\ msg_last.parsed = "JSONDecodeError"
    /\ msg_queue = << >>

\* the fields of filter f in the filter info
FieldsOf(f) == {x \in filter_info.fields : x[1] = f}

\* C27: for each filter the percentage is remaining / nominal * 100 rounded to
\* one decimal (200 and 150 give 75.0), produced exactly when nominal > 0 and
\* remaining is present, 0 included; with nominal 0 or absent, or remaining
\* absent, none of the filter's derived fields appear
C27_FilterPercentage ==
    filter_info.ret # "unset" =>
        \A f \in Filters :
            LET nominal == filter_data[f].nominal
                remaining == filter_data[f].remaining
            IN IF nominal # << >> /\ remaining # << >> /\ nominal[1] > 0
               THEN /\ \E p \in {x[3] : x \in {y \in FieldsOf(f) : y[2] = "percentage"}} :
                          /\ FieldsOf(f) = {<<f, "percentage", p>>,
                                            <<f, "hours_remaining", remaining[1]>>,
                                            <<f, "hours_total", nominal[1]>>}
                          /\ 2 * (p * nominal[1] - 1000 * remaining[1]) <= nominal[1]
                          /\ 2 * (1000 * remaining[1] - p * nominal[1]) <= nominal[1]
                    /\ (nominal = <<200>> /\ remaining = <<150>>) =>
                           <<f, "percentage", 750>> \in FieldsOf(f)
               ELSE FieldsOf(f) = {}

\* the replace filter at 150 of 200 hours reads 75.0, the clean filter with no
\* hour left reads 0.0
C27_SeventyFiveAndZero ==
    /\ filter_info.ret = "dict"
    /\ filter_data["replace"] = [nominal |-> <<200>>, remaining |-> <<150>>]
    /\ <<"replace", "percentage", 750>> \in filter_info.fields
    /\ filter_data["clean"] = [nominal |-> <<3>>, remaining |-> <<0>>]
    /\ <<"clean", "percentage", 0>> \in filter_info.fields

\* C28: whenever the Broker Session is left not Connected, a further reconnect
\* attempt is eventually started, so that with a broker that accepts the
\* handshakes the session becomes Connected again without outside intervention
C28_ReconnectsWithoutIntervention ==
    (mqtt_exists /\ ~m_connected) ~> m_connected

\* C29: when the access token has entered its refresh window, or has expired,
\* by the time a reconnect task sends its handshake and a refresh token is
\* held, a refresh has been issued before that handshake
C29_RefreshedBeforeReconnect ==
    \A w \in Workers :
        (/\ w_pc[w] = "wait"
         /\ w_owner[w] = "recon"
         /\ auth_refresh_token # 0
         /\ auth_expires_at # 0
         /\ w_start + TOKEN_REFRESH_BUFFER > auth_expires_at)
        => posts > 0

\* C30: once a refresh has raised AuthenticationExpired, no later
\* ensure_access_token call returns True and no later poll cycle proceeds as if
\* the token were valid
C30_ReauthStaysSignalled ==
    expired_raised =>
        /\ auth_pc = "done" => auth_ret # "True"
        /\ poll_result # "ok"

\* C31: after async_shutdown has run the Broker Session stays disconnected: no
\* reconnect task scheduled earlier and no connect attempt in flight at
\* shutdown establishes a connection afterwards
C31_StaysDisconnectedAfterShutdown ==
    shut_down => ~m_connected /\ conn # "up"


\* refresh_access_token has returned True with a new access token
C32_RefreshSucceeded ==
    /\ auth_access_token > 1
    /\ auth_pc = "done"
    /\ auth_ret = "True"

\* C32: after a successful token refresh the Broker Session eventually holds a
\* connection whose handshake carried the refreshed access token and signature,
\* also when the first async_update_credentials call was deferred.  (Stated as
\* the specification states it; it does not hold of the code.)
C32_RefreshedCredentialsEventuallyConnected ==
    C32_RefreshSucceeded
        ~> (m_connected /\ conn = "up" /\ hs.token = auth_access_token
                /\ hs.sig = auth_signature)

\* no connect attempt and no credential rotation is in flight and no callback
\* handoff waits on the event loop
C33_Quiescent ==
    /\ \A w \in Workers : w_pc[w] = "idle"
    /\ ~m_connecting
    /\ ~m_refreshing
    /\ poll_pc \notin {"upd_sleep", "upd_wait"}
    /\ setup_pc # "connect"
    /\ conn # "pending"
    /\ loop_queue = << >>

\* C33: whenever no connect attempt and no credential rotation is in flight and
\* no callback handoff is pending on the event loop, the coordinator's
\* connected flag equals the Broker Session's connected flag.  (Stated as the
\* specification states it; it does not hold of the code.)
C33_CoordinatorMirrorsSession ==
    C33_Quiescent => (coord_connected = m_connected)

\* async_update_credentials returns True
C34_ReturnsTrue == upd_ret # "True" /\ upd_ret' = "True"

\* the last handshake carried the access token and the signature stored by the
\* call
C34_HandshakeOfThisCall ==
    hs.token = mqtt_access_token /\ hs.sig = mqtt_signature

C35_RefreshedAccessTokenNotEmpty ==
    (auth_pc = "done" /\ last_status = 200)
        => (auth_ret = "True" => auth_access_token # 0)
              /\ (auth_access_token = 0 => pre.access_token = 0)

\* C36: after refresh_access_token returns True the token expiry is known and
\* was computed from that refresh response, never left unknown or at its
\* pre-refresh value.  (Stated as the specification states it; it does not
\* hold of the code.)
C36_RefreshedExpiryFromResponse ==
    (auth_pc = "done" /\ last_status = 200 /\ auth_ret = "True")
        => /\ auth_expires_at # 0
           /\ \/ last_token_data.exp # 0 /\ auth_expires_at = last_token_data.exp
              \/ /\ last_token_data.expires_in # 0
                 /\ auth_expires_at = last_token_data.at + last_token_data.expires_in

\* C37: the consecutive-disconnect count always stays within 0..32: each
\* abnormal disconnect raises it by one, saturating at 32, a clean (cause 0)
\* disconnect leaves it unchanged, and a successful connect resets it, the
\* last-disconnect cause and the last-disconnect time to zero; no other step
\* of the session changes it
C37_DisconnectCountBounded ==
    /\ m_attempts \in 0..32
    /\ [][/\ m_attempts' \in 0..32
          /\ (\E rc \in AbnormalRcs : OnDisconnect(rc))
                => /\ m_attempts' = (IF m_attempts = 32 THEN 32 ELSE m_attempts + 1)
                   /\ m_last_rc' \in AbnormalRcs
                   /\ m_last_time' = now
          /\ OnDisconnect(0) => UNCHANGED backoffVars
          /\ OnConnectAccepted
                => (m_attempts' = 0 /\ m_last_rc' = 0 /\ m_last_time' = 0)
          /\ ~(\E rc \in AbnormalRcs : OnDisconnect(rc)) /\ ~OnConnectAccepted
                => UNCHANGED backoffVars]_vars

\* an abnormal disconnect arrived at a count of 32, after the backoff sleep of
\* the attempt, and left the count at 32
C37_LossAtSaturation ==
    /\ m_attempts = 32
    /\ m_last_time > T0
    /\ m_last_rc \in AbnormalRcs
    /\ ~m_connected
    /\ conn = "none"

\* C38: every connect attempt that starts terminates, by success, by its
\* timeout or by an error, and on every one of those paths the connecting flag
\* is cleared: the flag is set exactly while an attempt is between its checks
\* and its return, and an attempt that holds it always comes to its return, so
\* no later connect call meets a stale flag
C38_ConnectAttemptTerminates ==
    /\ [](m_connecting <=> \E w \in Workers : w_pc[w] \in Holding)
    /\ \A w \in Workers : (w_pc[w] \in Holding) ~> (w_pc[w] = "idle")
    /\ m_connecting ~> ~m_connecting

\* an attempt has ended on its timeout or error path: the handshake was made,
\* the transport is torn down, the thread is back and the flag is clear
C38_FailedAttemptClearedFlag ==
    /\ hs.token # 0
    /\ \A w \in Workers : w_pc[w] = "idle"
    /\ ~m_connecting
    /\ ~m_connected
    /\ faults = 0
    /\ recon_last = "connect"

\* the coordinator's shared state, as far as the callbacks reach it
C39_SharedState == <<coord_connected, recon_sleeping, device_state, last_update>>

\* C39: the coordinator's shared state is written only on the event loop: the
\* connect, disconnect and message callbacks on the network thread only
\* enqueue a handoff, and the loop runs the handoffs in the order the events
\* occurred: a step that changes the shared state runs the oldest handoff,
\* with the oldest value of its kind, and every other step that touches the
\* queue appends to its end and leaves the shared state alone
C39_SharedStateWrittenInLoopInOrder ==
    [][/\ C39_SharedState' # C39_SharedState
            => (handoffs # << >> /\ handoffs' = Tail(handoffs))
       /\ handoffs' # handoffs =>
            \/ /\ handoffs # << >> /\ handoffs' = Tail(handoffs)
               /\ IF Head(handoffs) = "connection"
                  THEN /\ coord_connected' = Head(loop_queue)
                       /\ loop_queue' = Tail(loop_queue)
                       /\ UNCHANGED <<msg_queue, device_state, last_update>>
                  ELSE /\ device_state' = device_state
                                + (IF Head(msg_queue) = "status" THEN 1 ELSE 0)
                       /\ msg_queue' = Tail(msg_queue)
                       /\ UNCHANGED <<loop_queue, coord_connected, recon_sleeping>>
            \/ /\ UNCHANGED C39_SharedState
               /\ \/ /\ handoffs' = Append(handoffs, "connection")
                     /\ \E connected \in BOOLEAN :
                            loop_queue' = Append(loop_queue, connected)
                     /\ UNCHANGED msg_queue
                  \/ /\ handoffs' = Append(handoffs, "message")
                     /\ msg_queue' = Append(msg_queue, msg_last'.parsed)
                     /\ UNCHANGED loop_queue
       /\ Len(handoffs') = Len(loop_queue') + Len(msg_queue')]_vars

\* a status message and then the loss of the connection were handed to the
\* loop, and the loop has run both: the message is merged and the coordinator
\* knows the session is down
C39_MessageThenLossProcessed ==
    /\ handoffs = << >>
    /\ device_state = 1
    /\ last_update >= T0
    /\ ~coord_connected
    /\ recon_sleeping # << >>
    /\ ~m_connected

\* C40: the fan's speed/percentage mapping round-trips: for every ordered
\* speed list of length n >= 1 and every speed s in it, setting the percentage
\* that the entity reports for s sends the command for that same speed s.
\* (Stated as the specification states it; it does not hold of the code.)
C40_PercentageRoundTrips ==
    fan.sent # << >> => fan.sent = <<fan.speed>>
=============================================================================
